---------------------------- MODULE Spec2Model ----------------------------
(***************************************************************************)
(* Duplicate Name Highlighter: the duplicate-tracking ledger.              *)
(*                                                                         *)
(* The repository holds two variants of the ledger:                        *)
(*   "names"  core/duplicate_tracker.py (process_names, session_names),    *)
(*            driven by gui/main_window.py over tracker/database.py;       *)
(*   "counts" out/production/.../duplicate_tracker.py (process,            *)
(*            session_counts), driven by ScreenCapture over                *)
(*            utils/database.py.                                           *)
(* The variable impl says which one a behaviour runs; it never changes.    *)
(* Strings are sequences of one-character strings.                         *)
(***************************************************************************)
EXTENDS Integers, Sequences, FiniteSets, TLC

VARIABLES
    impl,            \* "names" or "counts": which ledger variant is running
    faults,          \* how many more durable-store statements will raise
    session_names,   \* names: DuplicateTracker.session_names (a set)
    session_counts,  \* counts: DuplicateTracker.session_counts (a dict)
    db,              \* the durable table: name -> cumulative count (a dict)
    duplicates,      \* names: the list process_names returned to the caller
    markers,         \* the overlay's marker list
    lastTick,        \* the detections of the last tick
    lastOp,          \* the last operation executed
    recorded,        \* history: occurrences handed to the ledger since the
                     \* store was last emptied, per key
    observed,        \* history: detections handed to the ledger since the
                     \* session was last reset, per raw name
    position_history, \* names: DuplicateTracker.position_history of
                     \* tracker/duplicate_tracker.py, followed by the scan
                     \* loop that hands scroll events over (ScanTick)
    addFailed        \* history: an add-occurrence raised since the session
                     \* was last reset

VARIABLES
    nm_orig,         \* normalize_name: a raw name
    nm_cur,          \* normalize_name: another spelling of nm_orig
    nm_out           \* normalize_name: the results of successive applications

VARIABLES
    last_image,        \* ScrollTracker.last_image
    last_ocr_results,  \* ScrollTracker.last_ocr_results
    scroll_history,    \* ScrollTracker.scroll_history
    last_scroll_time,  \* ScrollTracker.last_scroll_time, in tenths of a second
    clock              \* time.time(), in tenths of a second

VARIABLES
    last_hash,       \* ScreenCapture.last_hash
    hash_threshold   \* ScreenCapture.hash_threshold

VARIABLES
    call             \* the last call of a function under study: its
                     \* arguments as the caller still holds them, its result

VARIABLES
    threads,         \* the ScanWorker threads not yet collected, oldest
                     \* first, each by its position in run(); the last one
                     \* is MainWindow.scan_worker
    gui_queue,       \* signals queued for the GUI thread, oldest first
    status_label,    \* MainWindow.status_label
    manual_scan_btn, \* MainWindow.manual_scan_btn is enabled
    region,          \* a region to monitor has been chosen
    writers          \* calls of store methods under way at the same time,
                     \* each with its position and the row its SELECT read

ledgerVars == <<impl, faults, session_names, session_counts, db, duplicates,
                markers, lastTick, lastOp, recorded, observed,
                position_history, addFailed>>

normVars == <<nm_orig, nm_cur, nm_out>>

scrollVars == <<last_image, last_ocr_results, scroll_history,
                last_scroll_time, clock>>

changeVars == <<last_hash, hash_threshold>>

workerVars == <<threads, gui_queue, manual_scan_btn, region, writers>>

tickVars == <<workerVars, status_label>>

vars == <<ledgerVars, normVars, scrollVars, changeVars, call, tickVars>>

---------------------------------------------------------------------------
(* Bounds *)

\* detections in one OCR pass
MaxTickLen == 2
\* occurrences handed to the ledger before the model stops feeding it
MaxTotal == 3
\* durable-store statements that raise in one behaviour of SpecFaulty
MaxFaults == 1
\* characters of a raw name handed to normalize_name
MaxNameLen == 3
\* markers in a list handed to adjust_marker_positions or to the overlay
MaxMarkers == 2
\* detections in a list handed to track_ocr_results
MaxDetections == 2

\* bits of a perceptual hash
HashBits == 6
\* signals queued for the GUI thread before another scan is let start
MaxQueue == 5
\* occurrences one add_name_occurrence call of a concurrent writer records
MaxOccurrences == 2
\* the last reading of the clock in SpecCooldown, in tenths of a second
MaxClock == 16
\* the last reading of the clock in SpecHistory, in tenths of a second
MaxHistoryClock == 60

---------------------------------------------------------------------------
(* Strings *)

LowerLetters == {"a","b","c","d","e","f","g","h","i","j","k","l","m",
                 "n","o","p","q","r","s","t","u","v","w","x","y","z"}

\* str.lower() on one character (the capitals the model's inputs use)
LowerChar(c) ==
    CASE c = "A" -> "a"
      [] c = "B" -> "b"
      [] c = "L" -> "l"
      [] c = "O" -> "o"
      [] OTHER -> c

Lower(s) == [i \in 1..Len(s) |-> LowerChar(s[i])]

\* str.isspace() on one character
IsSpace(c) == c \in {" ", "\t"}

RECURSIVE LStrip(_)
LStrip(s) == IF s # <<>> /\ IsSpace(Head(s)) THEN LStrip(Tail(s)) ELSE s

RECURSIVE RStrip(_)
RStrip(s) ==
    IF s # <<>> /\ IsSpace(s[Len(s)]) THEN RStrip(SubSeq(s, 1, Len(s) - 1))
    ELSE s

\* str.strip()
Strip(s) == RStrip(LStrip(s))

\* str.replace(a, b) for one-character a and b
Replace(s, a, b) == [i \in 1..Len(s) |-> IF s[i] = a THEN b ELSE s[i]]

\* str.split(): the maximal runs of non-whitespace, in order
RECURSIVE SplitFrom(_, _, _)
SplitFrom(s, cur, acc) ==
    IF s = <<>> THEN (IF cur = <<>> THEN acc ELSE Append(acc, cur))
    ELSE IF IsSpace(Head(s))
         THEN SplitFrom(Tail(s), <<>>,
                        IF cur = <<>> THEN acc ELSE Append(acc, cur))
         ELSE SplitFrom(Tail(s), Append(cur, Head(s)), acc)

Split(s) == SplitFrom(s, <<>>, <<>>)

\* ' '.join(words)
RECURSIVE Join(_)
Join(words) ==
    IF words = <<>> THEN <<>>
    ELSE IF Len(words) = 1 THEN words[1]
    ELSE words[1] \o <<" ">> \o Join(Tail(words))

AllowedChars == LowerLetters \cup {" ", "-"}

IsAllowed(c) == c \in AllowedChars

\* mutant: the spaces are collapsed before the filter, not after it
normalize_name_CollapseFirst(name) ==
    LET lowered   == Strip(Lower(name))
        pipe      == Replace(lowered, "|", "l")
        zero      == Replace(pipe, "0", "o")
        one       == Replace(zero, "1", "l")
        collapsed == Join(Split(one))
    IN  SelectSeq(collapsed, IsAllowed)

\* DuplicateTracker.normalize_name
normalize_name(name) ==
    LET lowered  == Strip(Lower(name))
        pipe     == Replace(lowered, "|", "l")
        zero     == Replace(pipe, "0", "o")
        one      == Replace(zero, "1", "l")
        filtered == SelectSeq(one, IsAllowed)
    IN  Join(Split(filtered))

---------------------------------------------------------------------------
(* Inputs *)

\* raw OCR texts: "Al", "a1" (case and the one-for-l confusion), "Bo"
RawNames == { <<"A","l">>, <<"a","1">>, <<"B","o">> }

\* normalize_name on the raw texts the model feeds, evaluated once
NormalizedOf == [r \in RawNames |-> normalize_name(r)]

NormNames == { NormalizedOf[r] : r \in RawNames }

Keys == RawNames \cup NormNames

\* bounding boxes with their confidence, as the OCR pass reports them
Boxes == { [x |-> 0, y |-> 0,  width |-> 10, height |-> 10, confidence |-> 90],
           [x |-> 0, y |-> 20, width |-> 10, height |-> 10, confidence |-> 90] }

Detections == [name : RawNames, box : Boxes]

Ticks == UNION { [1..n -> Detections] : n \in 0..MaxTickLen }

\* the ticks of at most room detections
TicksWithin(room) ==
    UNION { [1..n -> Detections] :
              n \in 0..(IF room < MaxTickLen THEN room ELSE MaxTickLen) }

\* the monitored region (settings 'region')
Region == [x |-> 100, y |-> 100, width |-> 800, height |-> 600]

---------------------------------------------------------------------------
(* Dicts: functions whose domain is the set of keys present *)

EmptyDict == [k \in {} |-> 0]

Get(d, k, default) == IF k \in DOMAIN d THEN d[k] ELSE default

Put(d, k, v) == [j \in (DOMAIN d) \cup {k} |-> IF j = k THEN v ELSE d[j]]

RECURSIVE SumOver(_, _)
SumOver(d, ks) ==
    IF ks = {} THEN 0
    ELSE LET k == CHOOSE j \in ks : TRUE
         IN  d[k] + SumOver(d, ks \ {k})

SumValues(d) == SumOver(d, DOMAIN d)

---------------------------------------------------------------------------
(* The durable store.  A statement that raises is caught inside the store  *)
(* method, which logs and returns; ok = FALSE is that path.                *)

\* mutant: the UPDATE branch stores count instead of adding it
Database_add_name_occurrence_Overwrite(d, name, count, ok) ==
    IF ~ok THEN d ELSE Put(d, name, count)

\* mutant: every call records one occurrence, whatever count says
Database_add_name_occurrence_One(d, name, count, ok) ==
    IF ~ok THEN d
    ELSE IF name \in DOMAIN d THEN Put(d, name, d[name] + 1) ELSE Put(d, name, 1)

\* tracker/database.py Database.add_name_occurrence (the names table)
Database_add_name_occurrence(d, name, count, ok) ==
    IF ~ok THEN d
    ELSE IF name \in DOMAIN d
         THEN Put(d, name, d[name] + count)
         ELSE Put(d, name, count)

\* tracker/database.py Database.get_name_count
Database_get_name_count(d, name, ok) ==
    IF ~ok THEN 0
    ELSE IF name \in DOMAIN d THEN d[name] ELSE 0

\* tracker/database.py Database.clear_all_data
Database_clear_all_data(d, ok) == IF ok THEN EmptyDict ELSE d

\* mutant: an existing row is left as it is
NameDatabase_add_name_occurrence_NoUpdate(d, name, occurrences, ok) ==
    IF ~ok THEN d
    ELSE IF name \in DOMAIN d THEN d ELSE Put(d, name, occurrences)

\* utils/database.py NameDatabase.add_name_occurrence
NameDatabase_add_name_occurrence(d, name, occurrences, ok) ==
    IF ~ok THEN d
    ELSE IF name \in DOMAIN d
         THEN Put(d, name, d[name] + occurrences)
         ELSE Put(d, name, occurrences)

\* mutant: the DELETE is never issued
NameDatabase_clear_all_Noop(d, ok) == d

\* utils/database.py NameDatabase.clear_all
NameDatabase_clear_all(d, ok) == IF ok THEN EmptyDict ELSE d

\* get_statistics of either store: COUNT(*) and SUM(count)
Database_get_statistics(d) ==
    [total_names |-> Cardinality(DOMAIN d), total_occurrences |-> SumValues(d)]

---------------------------------------------------------------------------
(* The "names" ledger: core/duplicate_tracker.py                           *)

\* index of the entry of current_scan_names with this key, 0 when absent
GroupIndex(groups, n) ==
    IF \E i \in 1..Len(groups) : groups[i].name = n
    THEN CHOOSE i \in 1..Len(groups) : groups[i].name = n
    ELSE 0

\* process_names, first loop: current_scan_names, a dict in insertion order
RECURSIVE GroupInto(_, _)
GroupInto(tick, groups) ==
    IF tick = <<>> THEN groups
    ELSE LET name_data       == Head(tick)
             normalized_name == NormalizedOf[name_data.name]
             i               == GroupIndex(groups, normalized_name)
             withKey == IF i = 0
                        THEN Append(groups, [name |-> normalized_name,
                                             positions |-> <<>>])
                        ELSE groups
             j       == IF i = 0 THEN Len(withKey) ELSE i
         IN  GroupInto(Tail(tick),
                       [withKey EXCEPT ![j].positions =
                                           Append(@, name_data.box)])

GroupByName(tick) == GroupInto(tick, <<>>)

\* mutant: >= where the code has >
IsDuplicateNow_AtLeast(total_count, npositions, was_in_session) ==
    total_count >= npositions \/ was_in_session

\* the duplicate test of process_names
IsDuplicateNow(total_count, npositions, was_in_session) ==
    total_count > npositions \/ was_in_session

\* process_names, second loop, one iteration
ClassifyGroup(st, g, ok) ==
    LET d1             == Database_add_name_occurrence(st.db, g.name,
                                                       Len(g.positions), ok.add)
        total_count    == Database_get_name_count(d1, g.name, ok.get)
        was_in_session == g.name \in st.session_names
        entry == [name |-> g.name, positions |-> g.positions,
                  count |-> total_count,
                  is_new_duplicate |-> ~was_in_session]
    IN  [session_names |-> st.session_names \cup {g.name},
         db            |-> d1,
         duplicates    |->
             IF IsDuplicateNow(total_count, Len(g.positions), was_in_session)
             THEN Append(st.duplicates, entry)
             ELSE st.duplicates]

RECURSIVE ClassifyFrom(_, _, _, _)
ClassifyFrom(st, groups, oks, i) ==
    IF i > Len(groups) THEN st
    ELSE ClassifyFrom(ClassifyGroup(st, groups[i], oks[i]), groups, oks, i + 1)

\* DuplicateTracker.process_names: the new session set, store and result
process_names(sess, d, tick, oks) ==
    IF tick = <<>>
    THEN [session_names |-> sess, db |-> d, duplicates |-> <<>>]
    ELSE ClassifyFrom([session_names |-> sess, db |-> d, duplicates |-> <<>>],
                      GroupByName(tick), oks, 1)

\* OverlayWindow.update_markers: marker colour by count
MarkerColor(count) ==
    IF count = 2 THEN "orange" ELSE IF count = 3 THEN "red-orange" ELSE "red"

MarkersOfEntry(dup) ==
    [i \in 1..Len(dup.positions) |->
        [x      |-> Region.x + dup.positions[i].x,
         y      |-> Region.y + dup.positions[i].y,
         width  |-> dup.positions[i].width,
         height |-> dup.positions[i].height,
         name   |-> dup.name,
         color  |-> MarkerColor(dup.count),
         count  |-> dup.count]]

RECURSIVE OverlayWindow_update_markers(_)
OverlayWindow_update_markers(dups) ==
    IF dups = <<>> THEN <<>>
    ELSE MarkersOfEntry(Head(dups)) \o OverlayWindow_update_markers(Tail(dups))

---------------------------------------------------------------------------
(* The "counts" ledger: out/production/.../duplicate_tracker.py            *)

BoxOf(entry) ==
    <<entry.box.x, entry.box.y, entry.box.width, entry.box.height>>

\* process, one iteration of the loop over results
ProcessEntry(st, entry, ok) ==
    LET name  == entry.name
        count == Get(st.session_counts, name, 0) + 1
    IN  [session_counts  |-> Put(st.session_counts, name, count),
         db              |-> NameDatabase_add_name_occurrence(st.db, name, 1, ok),
         duplicate_boxes |->
             IF count > 1 THEN Append(st.duplicate_boxes, BoxOf(entry))
             ELSE st.duplicate_boxes]

RECURSIVE ProcessFrom(_, _, _, _)
ProcessFrom(st, results, oks, i) ==
    IF i > Len(results) THEN st
    ELSE ProcessFrom(ProcessEntry(st, results[i], oks[i]), results, oks, i + 1)

\* mutant: every call starts from an empty session_counts
process_FreshCounts(counts, d, results, oks) ==
    ProcessFrom([session_counts |-> EmptyDict, db |-> d, duplicate_boxes |-> <<>>],
                results, oks, 1)

\* DuplicateTracker.process: new session counts, store, and the boxes handed
\* to overlay.update_markers
process(counts, d, results, oks) ==
    ProcessFrom([session_counts |-> counts, db |-> d, duplicate_boxes |-> <<>>],
                results, oks, 1)

---------------------------------------------------------------------------
(* State machine *)

\* outcomes a store statement can have: it raises only while faults remain
OkChoices == IF faults > 0 THEN BOOLEAN ELSE {TRUE}

Raised(ok) == IF ok THEN 0 ELSE 1

RECURSIVE RaisedIn(_, _)
RaisedIn(oks, i) ==
    IF i > Len(oks) THEN 0 ELSE Raised(oks[i]) + RaisedIn(oks, i + 1)

RECURSIVE RaisedInPairs(_, _)
RaisedInPairs(oks, i) ==
    IF i > Len(oks) THEN 0
    ELSE Raised(oks[i].add) + Raised(oks[i].get) + RaisedInPairs(oks, i + 1)

\* occurrences of key k among the detections of a tick, keyed as the
\* running ledger keys them
KeyOf(raw) == IF impl = "names" THEN NormalizedOf[raw] ELSE raw

Occurrences(tick, k) == Cardinality({i \in 1..Len(tick) : KeyOf(tick[i].name) = k})

TickKeys(tick) == {KeyOf(tick[i].name) : i \in 1..Len(tick)}

Record(rec, tick) ==
    [k \in (DOMAIN rec) \cup TickKeys(tick) |->
        Get(rec, k, 0) + Occurrences(tick, k)]

\* the detections of a tick added to those observed, per raw name
Observe(obs, tick) ==
    [k \in (DOMAIN obs) \cup {tick[i].name : i \in 1..Len(tick)} |->
        Get(obs, k, 0) + Cardinality({i \in 1..Len(tick) : tick[i].name = k})]

\* Python's None, and a value that is present
None == <<>>

Some(v) == <<v>>

\* ScrollTracker.scroll_cooldown (0.5 s), in tenths of a second
scroll_cooldown == 5

\* ScreenCapture.__init__, default hash_threshold
default_hash_threshold == 5

NoCall == [op |-> "none"]

\* no name is being normalized
InitNormalizer == nm_orig = <<>> /\ nm_cur = <<>> /\ nm_out = <<>>

\* ScrollTracker.__init__; the clock is far from 0, as time.time() is
InitScrollTracker ==
    /\ last_image = None
    /\ last_ocr_results = <<>>
    /\ scroll_history = <<>>
    /\ last_scroll_time = 0
    /\ clock = scroll_cooldown

\* MainWindow.__init__ and setup_ui: no worker, nothing queued, no region
\* chosen yet
InitGui ==
    /\ threads = <<>>
    /\ gui_queue = <<>>
    /\ status_label = "Ready"
    /\ manual_scan_btn = TRUE
    /\ region = FALSE
    /\ writers = <<>>

\* ScreenCapture.__init__ with its default threshold
InitScreenCapture == last_hash = None /\ hash_threshold = default_hash_threshold

InitLedger ==
    /\ session_names = {}
    /\ session_counts = EmptyDict
    /\ db = EmptyDict
    /\ duplicates = <<>>
    /\ markers = <<>>
    /\ lastTick = <<>>
    /\ lastOp = "init"
    /\ recorded = EmptyDict
    /\ observed = EmptyDict
    /\ position_history = EmptyDict
    /\ addFailed = FALSE

\* either ledger variant over a store that works
Init ==
    /\ InitLedger /\ impl \in {"names", "counts"} /\ faults = 0
    /\ InitNormalizer /\ InitScrollTracker /\ InitGui /\ InitScreenCapture /\ call = NoCall

\* either ledger variant over a store whose statements may raise
InitFaulty ==
    /\ InitLedger /\ impl \in {"names", "counts"} /\ faults = MaxFaults
    /\ InitNormalizer /\ InitScrollTracker /\ InitGui /\ InitScreenCapture /\ call = NoCall

\* gui/main_window.py MainWindow.on_scan_completed on one of the OCR
\* results in ticks; overlay_ok = FALSE is the overlay raising, which the
\* handler catches
ProcessScan(ticks, overlay_oks) ==
    /\ impl = "names"
    /\ \E tick \in ticks \cap TicksWithin(MaxTotal - SumValues(recorded)),
          overlay_ok \in overlay_oks :
           \E oks \in [1..Len(GroupByName(tick)) ->
                            [add : OkChoices, get : OkChoices]] :
              LET r == process_names(session_names, db, tick, oks)
              IN  /\ RaisedInPairs(oks, 1) <= faults
                  /\ faults' = faults - RaisedInPairs(oks, 1)
                  /\ session_names' = r.session_names
                  /\ db' = r.db
                  /\ duplicates' = r.duplicates
                  /\ markers' = IF ~overlay_ok THEN markers
                                ELSE IF r.duplicates # <<>>
                                THEN OverlayWindow_update_markers(r.duplicates)
                                ELSE <<>>
                  /\ status_label' =
                        IF ~overlay_ok THEN "Error processing results"
                        ELSE IF r.duplicates # <<>> THEN "Found duplicates"
                        ELSE "No duplicates found"
                  /\ lastTick' = tick
                  /\ recorded' = Record(recorded, tick)
                  /\ observed' = Observe(observed, tick)
                  /\ addFailed' =
                        (addFailed \/ \E i \in DOMAIN oks : ~oks[i].add)
    /\ lastOp' = "tick"
    /\ UNCHANGED <<impl, session_counts>>

\* on_scan_completed as a call of its own, on any OCR result
OnScanCompleted ==
    /\ ProcessScan(Ticks, {TRUE})
    /\ UNCHANGED position_history
    /\ UNCHANGED <<normVars, workerVars, scrollVars, changeVars, call>>

\* reset_session forgets to clear the session names
MainWindow_reset_session_KeepsNames ==
    /\ impl = "names"
    /\ session_names' = session_names
    /\ markers' = <<>>
    /\ duplicates' = <<>>
    /\ lastTick' = <<>>
    /\ lastOp' = "reset_session"
    /\ addFailed' = FALSE
    /\ UNCHANGED <<impl, faults, session_counts, db, recorded>>
    /\ observed' = EmptyDict
    /\ position_history' = EmptyDict
    /\ status_label' = "Session reset"
    /\ UNCHANGED <<normVars, workerVars, scrollVars, changeVars, call>>

\* gui/main_window.py MainWindow.reset_session (the user answered Yes)
MainWindow_reset_session ==
    /\ impl = "names"
    /\ session_names' = {}
    /\ markers' = <<>>
    /\ duplicates' = <<>>
    /\ lastTick' = <<>>
    /\ lastOp' = "reset_session"
    /\ addFailed' = FALSE
    /\ UNCHANGED <<impl, faults, session_counts, db, recorded>>
    /\ observed' = EmptyDict
    /\ position_history' = EmptyDict
    /\ status_label' = "Session reset"
    /\ UNCHANGED <<normVars, workerVars, scrollVars, changeVars, call>>

\* gui/main_window.py MainWindow.clear_database (the user answered Yes)
MainWindow_clear_database ==
    /\ impl = "names"
    /\ \E ok \in OkChoices :
         /\ db' = Database_clear_all_data(db, ok)
         /\ recorded' = IF ok THEN EmptyDict ELSE recorded
         /\ faults' = faults - Raised(ok)
    /\ observed' = EmptyDict
    /\ position_history' = EmptyDict
    /\ session_names' = {}
    /\ markers' = <<>>
    /\ duplicates' = <<>>
    /\ lastTick' = <<>>
    /\ lastOp' = "clear_all"
    /\ addFailed' = FALSE
    /\ UNCHANGED <<impl, session_counts>>
    /\ status_label' = "Database cleared"
    /\ UNCHANGED <<normVars, workerVars, scrollVars, changeVars, call>>

\* core/duplicate_tracker.py DuplicateTracker.remove_name
remove_name ==
    /\ impl = "names"
    /\ \E name \in RawNames :
         LET normalized_name == NormalizedOf[name]
         IN  session_names' = IF normalized_name \in session_names
                              THEN session_names \ {normalized_name}
                              ELSE session_names
    /\ duplicates' = <<>>
    /\ lastTick' = <<>>
    /\ lastOp' = "remove_name"
    /\ UNCHANGED <<impl, faults, session_counts, db, markers, recorded,
                   observed, position_history, addFailed>>
    /\ UNCHANGED <<normVars, tickVars, scrollVars, changeVars, call>>

\* core/duplicate_tracker.py DuplicateTracker.add_manual_name
add_manual_name ==
    /\ impl = "names"
    /\ SumValues(recorded) + 1 <= MaxTotal
    /\ \E name \in RawNames, ok \in OkChoices :
         LET normalized_name == NormalizedOf[name]
         IN  /\ session_names' = session_names \cup {normalized_name}
             /\ db' = Database_add_name_occurrence(db, normalized_name, 1, ok)
             /\ recorded' = Put(recorded, normalized_name,
                                Get(recorded, normalized_name, 0) + 1)
             /\ UNCHANGED observed
             /\ addFailed' = (addFailed \/ ~ok)
             /\ faults' = faults - Raised(ok)
    /\ duplicates' = <<>>
    /\ lastTick' = <<>>
    /\ lastOp' = "add_manual_name"
    /\ UNCHANGED <<impl, session_counts, markers, position_history>>
    /\ UNCHANGED <<normVars, tickVars, scrollVars, changeVars, call>>

\* ScreenCapture.capture_and_process from the OCR call on
CaptureAndProcess ==
    /\ impl = "counts"
    /\ \E tick \in TicksWithin(MaxTotal - SumValues(recorded)) :
           \E oks \in [1..Len(tick) -> OkChoices] :
              LET r == process(session_counts, db, tick, oks)
              IN  /\ RaisedIn(oks, 1) <= faults
                  /\ faults' = faults - RaisedIn(oks, 1)
                  /\ session_counts' = IF tick # <<>> THEN r.session_counts
                                       ELSE session_counts
                  /\ db' = IF tick # <<>> THEN r.db ELSE db
                  /\ markers' = IF tick # <<>> THEN r.duplicate_boxes ELSE <<>>
                  /\ lastTick' = tick
                  /\ recorded' = Record(recorded, tick)
                  /\ observed' = Observe(observed, tick)
                  /\ position_history' = position_history
                  /\ addFailed' = (addFailed \/ \E i \in DOMAIN oks : ~oks[i])
    /\ lastOp' = "tick"
    /\ UNCHANGED <<impl, session_names, duplicates>>
    /\ UNCHANGED <<normVars, tickVars, scrollVars, changeVars, call>>

\* mutant: reset_session also deletes the durable records
ScreenCapture_reset_session_ClearsStore ==
    /\ impl = "counts"
    /\ session_counts' = EmptyDict
    /\ markers' = <<>>
    /\ db' = EmptyDict
    /\ recorded' = EmptyDict
    /\ observed' = EmptyDict
    /\ position_history' = position_history
    /\ lastTick' = <<>>
    /\ lastOp' = "reset_session"
    /\ addFailed' = FALSE
    /\ UNCHANGED <<impl, faults, session_names, duplicates>>
    /\ last_hash' = None
    /\ call' = [op |-> "reset_session"]
    /\ UNCHANGED <<normVars, tickVars, scrollVars, hash_threshold>>

\* ScreenCapture.reset_session -> DuplicateTracker.reset_session
ScreenCapture_reset_session ==
    /\ impl = "counts"
    /\ session_counts' = EmptyDict
    /\ markers' = <<>>
    /\ lastTick' = <<>>
    /\ lastOp' = "reset_session"
    /\ addFailed' = FALSE
    /\ UNCHANGED <<impl, faults, session_names, db, duplicates, recorded>>
    /\ observed' = EmptyDict
    /\ position_history' = position_history
    /\ last_hash' = None
    /\ call' = [op |-> "reset_session"]
    /\ UNCHANGED <<normVars, tickVars, scrollVars, hash_threshold>>

\* ScreenCapture.clear_all -> DuplicateTracker.clear_all
ScreenCapture_clear_all ==
    /\ impl = "counts"
    /\ session_counts' = EmptyDict
    /\ markers' = <<>>
    /\ \E ok \in OkChoices :
         /\ db' = NameDatabase_clear_all(db, ok)
         /\ recorded' = IF ok THEN EmptyDict ELSE recorded
         /\ faults' = faults - Raised(ok)
    /\ observed' = EmptyDict
    /\ position_history' = position_history
    /\ lastTick' = <<>>
    /\ lastOp' = "clear_all"
    /\ addFailed' = FALSE
    /\ UNCHANGED <<impl, session_names, duplicates>>
    /\ last_hash' = None
    /\ call' = [op |-> "clear_all"]
    /\ UNCHANGED <<normVars, tickVars, scrollVars, hash_threshold>>

NextNames ==
    \/ OnScanCompleted
    \/ MainWindow_reset_session
    \/ MainWindow_clear_database
    \/ remove_name
    \/ add_manual_name

NextCounts ==
    \/ CaptureAndProcess
    \/ ScreenCapture_reset_session
    \/ ScreenCapture_clear_all

Next == NextNames \/ NextCounts

\* both ledger variants, the durable store works
Spec == Init /\ [][Next]_vars

\* both ledger variants, statements of the durable store may raise
SpecFaulty == InitFaulty /\ [][Next]_vars

---------------------------------------------------------------------------
(* normalize_name as a function of its argument.  A behaviour takes a raw   *)
(* name, respells it (case, OCR confusions, wider whitespace) and applies   *)
(* normalize_name to the respelling, then to the result.                    *)

\* the characters raw names are drawn from: two letters, space, tab, hyphen
\* and one character outside the allowed alphabet
NameChars == {"l", "o", " ", "\t", "-", "."}

RawNameStrings == UNION { [1..n -> NameChars] : n \in 0..MaxNameLen }

\* the other case of a letter
SwapCase(c) ==
    CASE c = "l" -> "L"
      [] c = "L" -> "l"
      [] c = "o" -> "O"
      [] c = "O" -> "o"
      [] OTHER -> c

\* the characters OCR confuses with c: pipe and one for l, zero for o
Confusions(c) ==
    CASE c = "l" -> {"|", "1"}
      [] c = "|" -> {"l"}
      [] c = "1" -> {"l"}
      [] c = "o" -> {"0"}
      [] c = "0" -> {"o"}
      [] OTHER -> {}

InsertAt(s, i, c) == SubSeq(s, 1, i) \o <<c>> \o SubSeq(s, i + 1, Len(s))

\* position i (0..Len(s)) is at an end of s or next to a whitespace character
AtWhitespace(s, i) ==
    IF i = 0 \/ i = Len(s) THEN TRUE
    ELSE IsSpace(s[i]) \/ IsSpace(s[i + 1])

InitNormalize ==
    /\ InitLedger /\ impl = "names" /\ faults = 0
    /\ InitScrollTracker /\ InitGui /\ InitScreenCapture /\ call = NoCall
    /\ nm_orig \in RawNameStrings
    /\ nm_cur = nm_orig
    /\ nm_out = <<>>

\* the same name in another letter case
ChangeCase ==
    /\ nm_out = <<>>
    /\ \E i \in 1..Len(nm_cur) :
         /\ SwapCase(nm_cur[i]) # nm_cur[i]
         /\ nm_cur' = [nm_cur EXCEPT ![i] = SwapCase(@)]
    /\ UNCHANGED <<nm_orig, nm_out, ledgerVars, tickVars, scrollVars, changeVars, call>>

\* the same name with one OCR confusion made or undone
OcrConfuse ==
    /\ nm_out = <<>>
    /\ \E i \in 1..Len(nm_cur) : \E c \in Confusions(nm_cur[i]) :
         nm_cur' = [nm_cur EXCEPT ![i] = c]
    /\ UNCHANGED <<nm_orig, nm_out, ledgerVars, tickVars, scrollVars, changeVars, call>>

\* the same name with a whitespace run one character longer, or with one
\* more leading or trailing whitespace character
WidenWhitespace ==
    /\ nm_out = <<>>
    /\ Len(nm_cur) <= MaxNameLen
    /\ \E i \in 0..Len(nm_cur), c \in {" ", "\t"} :
         /\ AtWhitespace(nm_cur, i)
         /\ nm_cur' = InsertAt(nm_cur, i, c)
    /\ UNCHANGED <<nm_orig, nm_out, ledgerVars, tickVars, scrollVars, changeVars, call>>

\* normalize_name applied to the respelling, then to its own result
NormalizeName ==
    /\ Len(nm_out) < 2
    /\ nm_out' = Append(nm_out,
                        normalize_name(IF nm_out = <<>> THEN nm_cur
                                       ELSE nm_out[Len(nm_out)]))
    /\ UNCHANGED <<nm_orig, nm_cur, ledgerVars, tickVars, scrollVars, changeVars, call>>

NextNormalize == ChangeCase \/ OcrConfuse \/ WidenWhitespace \/ NormalizeName

SpecNormalize == InitNormalize /\ [][NextNormalize]_vars

---------------------------------------------------------------------------
(* core/scroll_tracker.py: ScrollTracker                                   *)

\* ScrollTracker.__init__, default scroll_threshold
scroll_threshold == 10

\* ScrollTracker.__init__, default correlation_threshold (0.7), in hundredths
correlation_threshold == 70

\* adjust_marker_positions keeps a marker whose bottom edge is above -50
offscreen_tolerance == 50

\* track_ocr_results: a standard deviation below 20 is consistent movement
consistent_std == 20

\* detect_scroll: the strips are at least 50 rows high
min_strip_height == 50

\* scroll_history keeps the last 10 events
max_history == 10

\* confidence of an OCR-based event (0.8), in hundredths
ocr_confidence == 80

\* marker dictionaries with x, y, width, height
MarkerSet == { [x |-> 10, y |-> 50, width |-> 20, height |-> 10],
               [x |-> 30, y |-> 10, width |-> 25, height |-> 10] }

MarkerLists == UNION { [1..n -> MarkerSet] : n \in 0..MaxMarkers }

Directions == {"down", "up"}

Magnitudes == {15, 20, 50, 70, 200}

\* scroll_info as adjust_marker_positions reads it: None, or a dictionary
\* with direction and magnitude
ScrollInfos ==
    {None} \cup {Some(e) : e \in [direction : Directions, magnitude : Magnitudes]}

\* marker['y'] and marker['height'] exist
HasPosition(marker) == {"y", "height"} \subseteq DOMAIN marker

\* mutant: the marker moves with the scroll
AdjustOne_WithScroll(marker, direction, magnitude) ==
    [marker EXCEPT !.y = IF direction = "down" THEN @ + magnitude
                         ELSE IF direction = "up" THEN @ - magnitude
                         ELSE @]

\* marker.copy() with y moved against the scroll
AdjustOne(marker, direction, magnitude) ==
    [marker EXCEPT !.y = IF direction = "down" THEN @ - magnitude
                         ELSE IF direction = "up" THEN @ + magnitude
                         ELSE @]

\* mutant: a marker is kept when its bottom edge is at or above -50
StillVisible_AtLeast(marker) == marker.y + marker.height >= -offscreen_tolerance

\* the visibility test of adjust_marker_positions
StillVisible(marker) == marker.y + marker.height > -offscreen_tolerance

\* ScrollTracker.adjust_marker_positions: raised is the KeyError of a
\* dictionary without 'y' or 'height'
adjust_marker_positions(markers_in, scroll_info) ==
    IF scroll_info = None \/ markers_in = <<>>
    THEN [raised |-> FALSE, value |-> markers_in]
    ELSE IF \E i \in 1..Len(markers_in) : ~HasPosition(markers_in[i])
    THEN [raised |-> TRUE, value |-> <<>>]
    ELSE LET direction == scroll_info[1].direction
             magnitude == scroll_info[1].magnitude
             moved == [i \in 1..Len(markers_in) |->
                          AdjustOne(markers_in[i], direction, magnitude)]
         IN  [raised |-> FALSE, value |-> SelectSeq(moved, StillVisible)]

\* detections as track_ocr_results reads them: text and bbox = [x, y, w, h]
TrackTexts == {"John", "Jane"}

TrackYs == {20, 40}

BBoxOf(text, y) ==
    IF text = "John" THEN <<10, y, 30, 10>> ELSE <<40, y, 25, 12>>

\* a detection with the keys text and bbox only
BareDetection(text, y) == [text |-> text, bbox |-> BBoxOf(text, y)]

\* a detection that also carries its box as x, y, width, height
FullDetection(text, y) ==
    [text |-> text, bbox |-> BBoxOf(text, y),
     x |-> BBoxOf(text, y)[1], y |-> y,
     width |-> BBoxOf(text, y)[3], height |-> BBoxOf(text, y)[4]]

\* the detection lists of up to n entries, all of one shape
DetectionListsUpTo(n) ==
    UNION { { [i \in 1..k |-> BareDetection(f[i][1], f[i][2])] :
                 f \in [1..k -> TrackTexts \X TrackYs] }
            \cup
            { [i \in 1..k |-> FullDetection(f[i][1], f[i][2])] :
                 f \in [1..k -> TrackTexts \X TrackYs] } : k \in 0..n }

DetectionLists == DetectionListsUpTo(MaxDetections)

Abs(n) == IF n < 0 THEN -n ELSE n

MaxOf(S) == CHOOSE m \in S : \A n \in S : n <= m

\* {result['text']: result for result in results}: the last entry of a text
ByText(results) ==
    [t \in {results[i].text : i \in 1..Len(results)} |->
        results[MaxOf({i \in 1..Len(results) : results[i].text = t})]]

\* y_diff per common name
YDiffs(current_names, last_names) ==
    [t \in (DOMAIN current_names) \cap (DOMAIN last_names) |->
        current_names[t].bbox[2] - last_names[t].bbox[2]]

Squares(d) == [k \in DOMAIN d |-> d[k] * d[k]]

\* np.std(y_diffs) < 20, as n * sum(d^2) - sum(d)^2 < 20^2 * n^2
StdBelow(d, limit) ==
    LET n == Cardinality(DOMAIN d)
    IN  n * SumValues(Squares(d)) - SumValues(d) * SumValues(d)
            < limit * limit * n * n

\* the comparison of the mean with the threshold made inclusive
MeanExceeds_AtLeast(d, threshold) ==
    Abs(SumValues(d)) >= threshold * Cardinality(DOMAIN d)

\* abs(np.mean(y_diffs)) > scroll_threshold
MeanExceeds(d, threshold) ==
    Abs(SumValues(d)) > threshold * Cardinality(DOMAIN d)

\* the scroll_info of track_ocr_results; int() truncates toward zero
OcrScrollInfo(d, now) ==
    [direction  |-> IF SumValues(d) > 0 THEN "down" ELSE "up",
     magnitude  |-> Abs(SumValues(d)) \div Cardinality(DOMAIN d),
     confidence |-> ocr_confidence,
     timestamp  |-> now]

\* y_diffs as track_ocr_results builds it (per common name), empty when it
\* does not get that far
YDiffsSeen(last, ocr_results) ==
    IF last = <<>> \/ ocr_results = <<>> THEN EmptyDict
    ELSE LET d == YDiffs(ByText(ocr_results), ByText(last))
         IN  IF Cardinality(DOMAIN d) >= 2 THEN d ELSE EmptyDict

\* the movement of the common names is a uniform scroll
UniformScroll(last, ocr_results) ==
    LET d == YDiffs(ByText(ocr_results), ByText(last))
    IN  /\ ocr_results # <<>>
        /\ last # <<>>
        /\ Cardinality(DOMAIN d) >= 2
        /\ StdBelow(d, consistent_std)
        /\ MeanExceeds(d, scroll_threshold)

\* ScrollTracker.track_ocr_results: what it returns (or that it raised)
\* and the new last_ocr_results
track_ocr_results(last, ocr_results, now) ==
    IF last = <<>>
    THEN [raised |-> FALSE, results |-> ocr_results, scroll_info |-> None,
          last_ocr_results |-> ocr_results]
    ELSE IF UniformScroll(last, ocr_results)
    THEN LET scroll_info == OcrScrollInfo(YDiffs(ByText(ocr_results),
                                                 ByText(last)), now)
             adjusted == adjust_marker_positions(ocr_results, Some(scroll_info))
         IN  IF adjusted.raised
             THEN [raised |-> TRUE, results |-> <<>>, scroll_info |-> None,
                   last_ocr_results |-> last]
             ELSE [raised |-> FALSE, results |-> adjusted.value,
                   scroll_info |-> Some(scroll_info),
                   last_ocr_results |-> ocr_results]
    ELSE [raised |-> FALSE, results |-> ocr_results, scroll_info |-> None,
          last_ocr_results |-> ocr_results]

\* frames as detect_scroll sees them: their shape, and what they show
Images == { [height |-> 200, width |-> 100, id |-> 1],
            [height |-> 200, width |-> 100, id |-> 2],
            [height |-> 400, width |-> 100, id |-> 1] }

\* np.max of cv2.matchTemplate, in hundredths
Scores == {0, 70, 90}

\* max(height // 4, 50)
StripHeight(height) ==
    IF height \div 4 > min_strip_height THEN height \div 4 ELSE min_strip_height

\* detect_scroll, the event its two scores give
ImageScrollInfo(down_score, up_score, strip_height, now) ==
    IF down_score > correlation_threshold /\ down_score > up_score
    THEN Some([direction |-> "down",
               magnitude |-> (down_score * strip_height) \div 100,
               confidence |-> down_score, timestamp |-> now])
    ELSE IF up_score > correlation_threshold /\ up_score > down_score
    THEN Some([direction |-> "up",
               magnitude |-> (up_score * strip_height) \div 100,
               confidence |-> up_score, timestamp |-> now])
    ELSE None

\* mutant: a full history drops the event that arrives
AppendHistory_DropsNewest(history, event) ==
    IF Len(history) + 1 > max_history THEN history
    ELSE Append(history, event)

\* scroll_history.append(scroll_info), keeping the last 10
AppendHistory(history, event) ==
    IF Len(history) + 1 > max_history THEN Tail(Append(history, event))
    ELSE Append(history, event)

\* mutant: the cooldown ends one tenth of a second early
detect_scroll_ShortCooldown(current_image, now, raises, down_score, up_score) ==
    LET same == [result |-> None, last_image |-> last_image,
                 scroll_history |-> scroll_history,
                 last_scroll_time |-> last_scroll_time]
    IN  IF current_image = None \/ last_image = None
        THEN [same EXCEPT !.last_image = current_image]
        ELSE IF now - last_scroll_time < scroll_cooldown - 1
        THEN same
        ELSE IF raises
        THEN [same EXCEPT !.last_image = current_image]
        ELSE IF <<current_image[1].height, current_image[1].width>> #
                    <<last_image[1].height, last_image[1].width>>
        THEN [same EXCEPT !.last_image = current_image]
        ELSE LET scroll_info ==
                     ImageScrollInfo(down_score, up_score,
                                     StripHeight(current_image[1].height), now)
             IN  IF scroll_info # None
                 THEN [result |-> scroll_info,
                       last_image |-> current_image,
                       scroll_history |->
                           AppendHistory(scroll_history, scroll_info[1]),
                       last_scroll_time |-> now]
                 ELSE [same EXCEPT !.last_image = current_image]

\* mutant: the first frame is not cached
detect_scroll_BootstrapNoCache(current_image, now, raises, down_score, up_score) ==
    LET same == [result |-> None, last_image |-> last_image,
                 scroll_history |-> scroll_history,
                 last_scroll_time |-> last_scroll_time]
    IN  IF current_image = None \/ last_image = None
        THEN same
        ELSE IF now - last_scroll_time < scroll_cooldown
        THEN same
        ELSE IF raises
        THEN [same EXCEPT !.last_image = current_image]
        ELSE IF <<current_image[1].height, current_image[1].width>> #
                    <<last_image[1].height, last_image[1].width>>
        THEN [same EXCEPT !.last_image = current_image]
        ELSE LET scroll_info ==
                     ImageScrollInfo(down_score, up_score,
                                     StripHeight(current_image[1].height), now)
             IN  IF scroll_info # None
                 THEN [result |-> scroll_info,
                       last_image |-> current_image,
                       scroll_history |->
                           AppendHistory(scroll_history, scroll_info[1]),
                       last_scroll_time |-> now]
                 ELSE [same EXCEPT !.last_image = current_image]

\* ScrollTracker.detect_scroll: its result and the new tracker fields;
\* raises says that a processing step inside the try block raised
detect_scroll(current_image, now, raises, down_score, up_score) ==
    LET same == [result |-> None, last_image |-> last_image,
                 scroll_history |-> scroll_history,
                 last_scroll_time |-> last_scroll_time]
    IN  IF current_image = None \/ last_image = None
        THEN [same EXCEPT !.last_image = current_image]
        ELSE IF now - last_scroll_time < scroll_cooldown
        THEN same
        ELSE IF raises
        THEN [same EXCEPT !.last_image = current_image]
        ELSE IF <<current_image[1].height, current_image[1].width>> #
                    <<last_image[1].height, last_image[1].width>>
        THEN [same EXCEPT !.last_image = current_image]
        ELSE LET scroll_info ==
                     ImageScrollInfo(down_score, up_score,
                                     StripHeight(current_image[1].height), now)
             IN  IF scroll_info # None
                 THEN [result |-> scroll_info,
                       last_image |-> current_image,
                       scroll_history |->
                           AppendHistory(scroll_history, scroll_info[1]),
                       last_scroll_time |-> now]
                 ELSE [same EXCEPT !.last_image = current_image]

---------------------------------------------------------------------------
(* gui/overlay.py: Overlay, the overlay of the "counts" variant.  Its       *)
(* widget.markers is the variable markers.                                 *)

\* boxes (x, y, w, h) as DuplicateTracker.process hands them to the overlay
BoxLists ==
    { [i \in 1..Len(ms) |-> <<ms[i].x, ms[i].y, ms[i].width, ms[i].height>>] :
         ms \in MarkerLists }

\* adjust_markers_for_scroll, new_y of one box
NewY(y, direction, magnitude) ==
    IF direction = "down" THEN y - magnitude
    ELSE IF direction = "up" THEN y + magnitude
    ELSE y

BoxStillVisible(box) == box[2] + box[4] > -offscreen_tolerance

\* Overlay.adjust_markers_for_scroll: the new widget.markers
adjust_markers_for_scroll(widget_markers, scroll_info) ==
    IF scroll_info = None \/ widget_markers = <<>> THEN widget_markers
    ELSE LET moved == [i \in 1..Len(widget_markers) |->
                          <<widget_markers[i][1],
                            NewY(widget_markers[i][2], scroll_info[1].direction,
                                 scroll_info[1].magnitude),
                            widget_markers[i][3], widget_markers[i][4]>>]
         IN  SelectSeq(moved, BoxStillVisible)

---------------------------------------------------------------------------
(* The scroll functions as state machines.  A "names" behaviour calls the  *)
(* ScrollTracker; a "counts" behaviour drives the Overlay.                 *)

\* a caller builds a marker list
PrepareMarkers ==
    /\ impl = "names"
    /\ \E ms \in MarkerLists : call' = [op |-> "markers", markers |-> ms]
    /\ UNCHANGED <<ledgerVars, normVars, tickVars, scrollVars, changeVars>>

\* mutant: the markers are moved in the caller's list
AdjustMarkerPositions_InPlace ==
    /\ impl = "names"
    /\ call.op \in {"markers", "adjust_marker_positions"}
    /\ \E scroll_info \in ScrollInfos :
         LET r == adjust_marker_positions(call.markers, scroll_info)
         IN  call' = [op |-> "adjust_marker_positions",
                      markers |-> r.value,
                      scroll_info |-> scroll_info,
                      result |-> r.value]
    /\ UNCHANGED <<ledgerVars, normVars, tickVars, scrollVars, changeVars>>

\* ScrollTracker.adjust_marker_positions(markers, scroll_info) on the
\* caller's list; call.markers is that list after the call
AdjustMarkerPositions ==
    /\ impl = "names"
    /\ call.op \in {"markers", "adjust_marker_positions"}
    /\ \E scroll_info \in ScrollInfos :
         LET r == adjust_marker_positions(call.markers, scroll_info)
         IN  call' = [op |-> "adjust_marker_positions",
                      markers |-> call.markers,
                      scroll_info |-> scroll_info,
                      result |-> r.value]
    /\ UNCHANGED <<ledgerVars, normVars, tickVars, scrollVars, changeVars>>

\* ScrollTracker.track_ocr_results(ocr_results) for a list out of lists
TrackOcrResultsOn(lists) ==
    /\ impl = "names"
    /\ \E ocr_results \in lists :
         LET r == track_ocr_results(last_ocr_results, ocr_results, clock)
         IN  /\ last_ocr_results' = r.last_ocr_results
             /\ call' = [op |-> "track_ocr_results",
                         ocr_results |-> ocr_results,
                         y_diffs |-> YDiffsSeen(last_ocr_results, ocr_results),
                         raised |-> r.raised,
                         results |-> r.results,
                         scroll_info |-> r.scroll_info]
    /\ UNCHANGED <<ledgerVars, normVars, tickVars, changeVars, last_image,
                   scroll_history, last_scroll_time, clock>>

\* ScrollTracker.detect_scroll(current_image) for a frame out of images
\* and correlation scores out of down_scores and up_scores; time.time()
\* reads clock
DetectScrollWith(images, down_scores, up_scores) ==
    /\ impl = "names"
    /\ \E current_image \in {None} \cup {Some(i) : i \in images},
          raises \in BOOLEAN, down_score \in down_scores,
          up_score \in up_scores :
         LET r == detect_scroll(current_image, clock, raises,
                                down_score, up_score)
         IN  /\ last_image' = r.last_image
             /\ scroll_history' = r.scroll_history
             /\ last_scroll_time' = r.last_scroll_time
             /\ call' = [op |-> "detect_scroll", image |-> current_image,
                         now |-> clock, held |-> Len(scroll_history),
                         raises |-> raises, down_score |-> down_score,
                         up_score |-> up_score, result |-> r.result]
    /\ UNCHANGED <<ledgerVars, normVars, tickVars, changeVars, last_ocr_results, clock>>

DetectScrollOn(images, scores) == DetectScrollWith(images, scores, scores)

\* Overlay.update_markers(boxes)
Overlay_update_markers ==
    /\ impl = "counts"
    /\ \E boxes \in BoxLists : markers' = boxes
    /\ lastOp' = "update_markers"
    /\ call' = [op |-> "update_markers"]
    /\ UNCHANGED <<impl, faults, session_names, session_counts, db,
                   duplicates, lastTick, recorded, observed, position_history, addFailed>>
    /\ UNCHANGED <<normVars, tickVars, scrollVars, changeVars>>

\* Overlay.adjust_markers_for_scroll(scroll_info), once per marker update
Overlay_adjust_markers_for_scroll ==
    /\ impl = "counts"
    /\ lastOp = "update_markers"
    /\ \E scroll_info \in ScrollInfos :
         /\ markers' = adjust_markers_for_scroll(markers, scroll_info)
         /\ call' = [op |-> "adjust_markers_for_scroll",
                     scroll_info |-> scroll_info]
    /\ lastOp' = "adjust_markers_for_scroll"
    /\ UNCHANGED <<impl, faults, session_names, session_counts, db,
                   duplicates, lastTick, recorded, observed, position_history, addFailed>>
    /\ UNCHANGED <<normVars, tickVars, scrollVars, changeVars>>

\* a few detection lists and frames, enough to move the tracker's state
FewDetectionLists ==
    { <<>>,
      <<FullDetection("John", 20), FullDetection("Jane", 20)>>,
      <<FullDetection("John", 40), FullDetection("Jane", 40)>> }

FewImages == { [height |-> 200, width |-> 100, id |-> 1],
               [height |-> 200, width |-> 100, id |-> 2] }

FewScores == {0, 90}

TrackFew == TrackOcrResultsOn(FewDetectionLists)

DetectFew == DetectScrollOn(FewImages, FewScores)

NextAdjust ==
    \/ PrepareMarkers
    \/ AdjustMarkerPositions
    \/ TrackFew
    \/ DetectFew
    \/ Overlay_update_markers
    \/ Overlay_adjust_markers_for_scroll

\* marker adjustment, beside a tracker whose state moves
SpecAdjust == Init /\ [][NextAdjust]_vars

InitTrack ==
    /\ InitLedger /\ impl = "names" /\ faults = 0
    /\ InitNormalizer /\ InitScrollTracker /\ InitGui /\ InitScreenCapture /\ call = NoCall

TrackAny == TrackOcrResultsOn(DetectionLists)

\* track_ocr_results on every pair of detection lists
SpecTrack == InitTrack /\ [][TrackAny]_vars

---------------------------------------------------------------------------
(* detect_scroll over time.  time.time() is read in tenths of a second.    *)
(* SpecCooldown lets the clock move a tenth at a time, so that calls fall  *)
(* inside and outside a cooldown; SpecHistory lets it move a cooldown at a *)
(* time, far enough for the history to fill and overflow.                  *)

OneImage == { [height |-> 200, width |-> 100, id |-> 1] }

\* scores that give a scroll down or nothing
DownScores == {0, 90}

NoScore == {0}

\* time passes between two calls
TimePasses(step, until) ==
    /\ clock + step <= until
    /\ clock' = clock + step
    /\ UNCHANGED <<ledgerVars, normVars, tickVars, changeVars, last_image,
                   last_ocr_results, scroll_history, last_scroll_time, call>>

\* ScrollTracker.reset
ScrollTracker_reset ==
    /\ last_image' = None
    /\ last_ocr_results' = <<>>
    /\ scroll_history' = <<>>
    /\ last_scroll_time' = 0
    /\ call' = [op |-> "reset"]
    /\ UNCHANGED <<ledgerVars, normVars, tickVars, changeVars, clock>>

NextCooldown ==
    \/ DetectScrollOn(OneImage, FewScores)
    \/ TimePasses(1, MaxClock)
    \/ ScrollTracker_reset

SpecCooldown == InitTrack /\ [][NextCooldown]_vars

NextHistory ==
    \/ DetectScrollWith(OneImage, DownScores, NoScore)
    \/ TimePasses(scroll_cooldown, MaxHistoryClock)
    \/ ScrollTracker_reset

SpecHistory == InitTrack /\ [][NextHistory]_vars

\* frames of two sizes
TwoSizes == { [height |-> 200, width |-> 100, id |-> 1],
              [height |-> 400, width |-> 100, id |-> 1] }

NextDetect ==
    \/ DetectScrollOn(TwoSizes, FewScores)
    \/ TimePasses(scroll_cooldown, MaxClock)
    \/ ScrollTracker_reset

\* detect_scroll on frames of two sizes, inside and outside a cooldown
SpecDetect == InitTrack /\ [][NextDetect]_vars

---------------------------------------------------------------------------
(* ScreenCapture._has_changed: the perceptual-hash change check.  A frame   *)
(* is a record of an identity, the bits its perceptual hash has set, and    *)
(* whether imagehash can read it; two frames may share a hash.              *)

\* the hash of the all-dark frame has no bit set; frame i sets bits 1..i
RampFrames == { [id |-> i, bits |-> 1..i, readable |-> TRUE] : i \in 0..HashBits }

\* a second frame with the hash of frame 0, and an image phash raises on
Frames ==
    RampFrames \cup { [id |-> HashBits + 1, bits |-> {}, readable |-> TRUE],
                      [id |-> HashBits + 2, bits |-> {}, readable |-> FALSE] }

\* the values given to the constructor's hash_threshold
Thresholds == {-1, 0, 1, default_hash_threshold}

\* imagehash.phash(img)
imagehash_phash(img) ==
    [raised |-> ~img.readable, value |-> img.bits]

\* ImageHash.__sub__: the number of bits in which two hashes differ
HashDiff(a, b) == Cardinality((a \ b) \cup (b \ a))

\* the comparison with the threshold made inclusive
Exceeds_AtLeast(diff, threshold) == diff >= threshold

\* diff > self.hash_threshold
Exceeds(diff, threshold) == diff > threshold

\* the first check answers unchanged
has_changed_BootstrapUnchanged(last, threshold, img) ==
    LET current == imagehash_phash(img)
    IN  IF current.raised
        THEN [raised |-> TRUE, result |-> TRUE, last_hash |-> None]
        ELSE IF last = None
        THEN [raised |-> FALSE, result |-> FALSE,
              last_hash |-> Some(current.value)]
        ELSE [raised |-> FALSE,
              result |-> Exceeds(HashDiff(current.value, last[1]), threshold),
              last_hash |-> Some(current.value)]

\* the baseline is only replaced when the frame counts as changed
has_changed_StaleBaseline(last, threshold, img) ==
    LET current == imagehash_phash(img)
    IN  IF current.raised
        THEN [raised |-> TRUE, result |-> TRUE, last_hash |-> None]
        ELSE IF last = None
        THEN [raised |-> FALSE, result |-> TRUE,
              last_hash |-> Some(current.value)]
        ELSE LET changed == Exceeds(HashDiff(current.value, last[1]), threshold)
             IN  [raised |-> FALSE, result |-> changed,
                  last_hash |-> IF changed THEN Some(current.value) ELSE last]

\* the except branch leaves the baseline as it was
has_changed_KeepsOnFailure(last, threshold, img) ==
    LET current == imagehash_phash(img)
    IN  IF current.raised
        THEN [raised |-> TRUE, result |-> TRUE, last_hash |-> last]
        ELSE IF last = None
        THEN [raised |-> FALSE, result |-> TRUE,
              last_hash |-> Some(current.value)]
        ELSE [raised |-> FALSE,
              result |-> Exceeds(HashDiff(current.value, last[1]), threshold),
              last_hash |-> Some(current.value)]

\* _has_changed(img) with self.last_hash = last and self.hash_threshold =
\* threshold: the verdict, the new self.last_hash, and whether the except
\* branch ran
has_changed(last, threshold, img) ==
    LET current == imagehash_phash(img)
    IN  IF current.raised
        THEN [raised |-> TRUE, result |-> TRUE, last_hash |-> None]
        ELSE IF last = None
        THEN [raised |-> FALSE, result |-> TRUE,
              last_hash |-> Some(current.value)]
        ELSE [raised |-> FALSE,
              result |-> Exceeds(HashDiff(current.value, last[1]), threshold),
              last_hash |-> Some(current.value)]

\* ScreenCapture.__init__(hash_threshold = t)
InitChange ==
    /\ InitLedger
    /\ impl = "counts"
    /\ faults = 0
    /\ InitNormalizer
    /\ InitScrollTracker
    /\ InitGui
    /\ last_hash = None
    /\ hash_threshold \in Thresholds
    /\ call = NoCall

\* one call of _has_changed on a captured frame
HasChanged ==
    \E img \in Frames :
        LET r == has_changed(last_hash, hash_threshold, img)
        IN  /\ last_hash' = r.last_hash
            /\ call' = [op |-> "_has_changed", img |-> img,
                        raised |-> r.raised, result |-> r.result]
            /\ UNCHANGED <<ledgerVars, normVars, tickVars, scrollVars, hash_threshold>>

\* mutant: set_region keeps the stored fingerprint
ScreenCapture_set_region_KeepsHash ==
    /\ region' = TRUE
    /\ last_hash' = last_hash
    /\ call' = [op |-> "set_region"]
    /\ UNCHANGED <<threads, gui_queue, manual_scan_btn, status_label, writers>>
    /\ UNCHANGED <<ledgerVars, normVars, scrollVars, hash_threshold>>

\* ScreenCapture.set_region
ScreenCapture_set_region ==
    /\ region' = TRUE
    /\ last_hash' = None
    /\ call' = [op |-> "set_region"]
    /\ UNCHANGED <<threads, gui_queue, manual_scan_btn, status_label, writers>>
    /\ UNCHANGED <<ledgerVars, normVars, scrollVars, hash_threshold>>

NextChange ==
    \/ HasChanged
    \/ ScreenCapture_set_region
    \/ ScreenCapture_reset_session
    \/ ScreenCapture_clear_all

SpecChange == InitChange /\ [][NextChange]_vars

---------------------------------------------------------------------------
(* The scan loop of gui/main_window.py.  perform_scan runs in the GUI       *)
(* thread on a timer timeout or a click; ScanWorker.run runs in a thread of *)
(* its own and reaches the GUI thread only through signals, which Qt        *)
(* queues; the GUI thread takes queued signals in order, and nothing       *)
(* orders a timer timeout against a queued signal.                          *)

\* the OCR results the scan loop is fed: nothing, or one name
FewTicks ==
    {<<>>} \cup { <<[name |-> <<"A", "l">>, box |-> b]>> :
                    b \in {bb \in Boxes : bb.y = 0} }

IsRunning(pc) == pc # "finished"

Running(ts) == {i \in DOMAIN ts : IsRunning(ts[i])}

\* QThread objects no longer referenced and finished are collected
Collected(ts) == SelectSeq(ts, IsRunning)

\* signals a run() may still emit: scroll_detected, scan_completed or
\* error_occurred, finished
SignalsPerRun == 3

\* perform_scan without the isRunning() test
MainWindow_perform_scan_Unguarded ==
    /\ impl = "names"
    /\ \E trigger \in {"timer", "manual"} :
         /\ trigger = "manual" => manual_scan_btn
         /\ \/ /\ ~region
               /\ status_label' = "Please select a region first"
               /\ call' = [op |-> "perform_scan", trigger |-> trigger,
                           outcome |-> "no region"]
               /\ UNCHANGED workerVars
            \/ /\ region
               /\ Len(gui_queue) + SignalsPerRun <= MaxQueue
               /\ status_label' = "Scanning..."
               /\ manual_scan_btn' = FALSE
               /\ threads' = Append(Collected(threads), "start")
               /\ call' = [op |-> "perform_scan", trigger |-> trigger,
                           outcome |-> "started"]
               /\ UNCHANGED <<gui_queue, region, writers>>
    /\ UNCHANGED <<ledgerVars, normVars, scrollVars, changeVars>>

\* MainWindow.perform_scan, the slot of scan_timer.timeout and of
\* manual_scan_btn.clicked
MainWindow_perform_scan ==
    /\ impl = "names"
    /\ \E trigger \in {"timer", "manual"} :
         /\ trigger = "manual" => manual_scan_btn
         /\ \/ /\ ~region
               /\ status_label' = "Please select a region first"
               /\ call' = [op |-> "perform_scan", trigger |-> trigger,
                           outcome |-> "no region"]
               /\ UNCHANGED workerVars
            \/ /\ region
               /\ threads # <<>>
               /\ IsRunning(threads[Len(threads)])
               /\ call' = [op |-> "perform_scan", trigger |-> trigger,
                           outcome |-> "skipped"]
               /\ UNCHANGED <<workerVars, status_label>>
            \/ /\ region
               /\ IF threads = <<>> THEN TRUE
                  ELSE ~IsRunning(threads[Len(threads)])
               /\ Len(gui_queue) + SignalsPerRun <= MaxQueue
               /\ status_label' = "Scanning..."
               /\ manual_scan_btn' = FALSE
               /\ threads' = Append(Collected(threads), "start")
               /\ call' = [op |-> "perform_scan", trigger |-> trigger,
                           outcome |-> "started"]
               /\ UNCHANGED <<gui_queue, region, writers>>
    /\ UNCHANGED <<ledgerVars, normVars, scrollVars, changeVars>>

\* MainWindow.on_region_selected with a region
MainWindow_on_region_selected ==
    /\ impl = "names"
    /\ region' = TRUE
    /\ UNCHANGED <<threads, gui_queue, manual_scan_btn, status_label, writers>>
    /\ UNCHANGED <<ledgerVars, normVars, scrollVars, changeVars, call>>

\* the worker's steps leave everything but the threads and the queue alone
WorkerFrame ==
    UNCHANGED <<ledgerVars, normVars, scrollVars, changeVars, call,
                manual_scan_btn, region, writers, status_label>>

\* run() returns: the signals named are queued, then QThread's finished
Finish(i, signals) ==
    /\ threads' = [threads EXCEPT ![i] = "finished"]
    /\ gui_queue' = gui_queue \o signals \o <<"finished">>

\* ScanWorker.run: capture_region; no screenshot ends the run with
\* error_occurred
ScanWorker_capture ==
    /\ \E i \in DOMAIN threads :
         /\ threads[i] = "start"
         /\ \/ /\ threads' = [threads EXCEPT ![i] = "captured"]
               /\ UNCHANGED gui_queue
            \/ Finish(i, <<"error_occurred">>)
    /\ WorkerFrame

\* ScanWorker.run: detect_scroll, and scroll_detected when the confidence
\* is above 0.8
ScanWorker_detect_scroll ==
    /\ \E i \in DOMAIN threads :
         /\ threads[i] = "captured"
         /\ threads' = [threads EXCEPT ![i] = "scrolled"]
         /\ \E confident \in BOOLEAN :
              gui_queue' = IF confident
                           THEN Append(gui_queue, "scroll_detected")
                           ELSE gui_queue
    /\ WorkerFrame

\* ScanWorker.run: has_changed; an unchanged frame ends the run
ScanWorker_has_changed ==
    /\ \E i \in DOMAIN threads :
         /\ threads[i] = "scrolled"
         /\ \/ /\ threads' = [threads EXCEPT ![i] = "changed"]
               /\ UNCHANGED gui_queue
            \/ Finish(i, <<>>)
    /\ WorkerFrame

\* ScanWorker.run: extract_text_with_positions (which returns [] when it
\* fails) and scan_completed
ScanWorker_ocr ==
    /\ \E i \in DOMAIN threads :
         /\ threads[i] = "changed"
         /\ Finish(i, <<"scan_completed">>)
    /\ WorkerFrame

\* the GUI thread takes the oldest queued signal
Take(signal) ==
    /\ gui_queue # <<>>
    /\ Head(gui_queue) = signal
    /\ gui_queue' = Tail(gui_queue)

\* MainWindow.on_scroll_detected: OverlayWindow has no get_current_markers,
\* the AttributeError is caught and logged
MainWindow_on_scroll_detected ==
    /\ Take("scroll_detected")
    /\ UNCHANGED <<threads, manual_scan_btn, region, writers, status_label>>
    /\ UNCHANGED <<ledgerVars, normVars, scrollVars, changeVars, call>>

\* MainWindow.on_scan_completed as the slot of scan_completed
MainWindow_on_scan_completed ==
    /\ Take("scan_completed")
    /\ ProcessScan(FewTicks, BOOLEAN)
    /\ UNCHANGED position_history
    /\ UNCHANGED <<threads, manual_scan_btn, region, writers>>
    /\ UNCHANGED <<normVars, scrollVars, changeVars, call>>

\* MainWindow.on_scan_error
MainWindow_on_scan_error ==
    /\ Take("error_occurred")
    /\ status_label' = "Scan error"
    /\ UNCHANGED <<threads, manual_scan_btn, region, writers>>
    /\ UNCHANGED <<ledgerVars, normVars, scrollVars, changeVars, call>>

\* MainWindow.on_scan_finished
MainWindow_on_scan_finished ==
    /\ Take("finished")
    /\ manual_scan_btn' = TRUE
    /\ UNCHANGED <<threads, region, writers, status_label>>
    /\ UNCHANGED <<ledgerVars, normVars, scrollVars, changeVars, call>>

WorkerStep ==
    \/ ScanWorker_capture
    \/ ScanWorker_detect_scroll
    \/ ScanWorker_has_changed
    \/ ScanWorker_ocr

GuiStep ==
    \/ MainWindow_on_scroll_detected
    \/ MainWindow_on_scan_completed
    \/ MainWindow_on_scan_error
    \/ MainWindow_on_scan_finished

NextTick ==
    \/ MainWindow_on_region_selected
    \/ MainWindow_perform_scan
    \/ WorkerStep
    \/ GuiStep
    \/ MainWindow_reset_session
    \/ MainWindow_clear_database

InitTick ==
    /\ InitLedger /\ impl = "names" /\ faults = 0
    /\ InitNormalizer /\ InitScrollTracker /\ InitGui /\ InitScreenCapture
    /\ call = NoCall

SpecTick == InitTick /\ [][NextTick]_vars

---------------------------------------------------------------------------
(* The tick of the production ScreenCapture: capture_and_process, called   *)
(* from a timer slot, runs capture, change check, OCR and classification   *)
(* in one call.                                                             *)

\* the frames a tick may grab: two whose hashes are HashBits bits apart,
\* and one imagehash raises on
FewFrames == {f \in Frames : f.id \in {0, HashBits, HashBits + 2}}

\* what one call of capture_and_process did: whether a frame was grabbed,
\* the verdict of _has_changed (FALSE when it was not asked), whether
\* extract_text_with_positions ran, whether a scroll detection ran, whether an
\* exception left the call, the value returned, and whether the frame
\* grabbed met no stored fingerprint
TickRecord(captured, changed, raised, result) ==
    [op |-> "capture_and_process", captured |-> captured,
     changed |-> changed, ocr_ran |-> changed, detect_scroll_ran |-> FALSE,
     raised |-> raised, result |-> result,
     bootstrap |-> (captured /\ last_hash = None)]

\* capture_and_process returns before the OCR call
SkippedTick(captured) ==
    /\ call' = TickRecord(captured, FALSE, FALSE, FALSE)
    /\ UNCHANGED ledgerVars

\* mutant: the boxes of a tick are added to the markers on display
ProcessedTick_KeepsMarkers(overlay_oks) ==
    \E tick \in FewTicks \cap TicksWithin(MaxTotal - SumValues(recorded)),
       overlay_ok \in overlay_oks :
        \E oks \in [1..Len(tick) -> OkChoices] :
           LET r == process(session_counts, db, tick, oks)
           IN  /\ RaisedIn(oks, 1) <= faults
               /\ faults' = faults - RaisedIn(oks, 1)
               /\ session_counts' = IF tick # <<>> THEN r.session_counts
                                    ELSE session_counts
               /\ db' = IF tick # <<>> THEN r.db ELSE db
               /\ markers' = IF tick # <<>>
                             THEN markers \o r.duplicate_boxes
                             ELSE <<>>
               /\ lastTick' = tick
               /\ recorded' = Record(recorded, tick)
               /\ observed' = Observe(observed, tick)
               /\ position_history' = position_history
               /\ addFailed' = (addFailed \/ \E i \in DOMAIN oks : ~oks[i])
               /\ lastOp' = "tick"
               /\ call' = TickRecord(TRUE, TRUE, ~overlay_ok,
                                     overlay_ok /\ tick # <<>>)
               /\ UNCHANGED <<impl, session_names, duplicates>>

\* capture_and_process from the OCR call on.  gui/overlay.py Overlay:
\* update_markers and clear_markers assign widget.markers before they call
\* Qt, so the list is replaced also when the overlay raises
\* (overlay_ok = FALSE), which nothing catches
ProcessedTick(overlay_oks) ==
    \E tick \in FewTicks \cap TicksWithin(MaxTotal - SumValues(recorded)),
       overlay_ok \in overlay_oks :
        \E oks \in [1..Len(tick) -> OkChoices] :
           LET r == process(session_counts, db, tick, oks)
           IN  /\ RaisedIn(oks, 1) <= faults
               /\ faults' = faults - RaisedIn(oks, 1)
               /\ session_counts' = IF tick # <<>> THEN r.session_counts
                                    ELSE session_counts
               /\ db' = IF tick # <<>> THEN r.db ELSE db
               /\ markers' = IF tick # <<>> THEN r.duplicate_boxes
                             ELSE <<>>
               /\ lastTick' = tick
               /\ recorded' = Record(recorded, tick)
               /\ observed' = Observe(observed, tick)
               /\ position_history' = position_history
               /\ addFailed' = (addFailed \/ \E i \in DOMAIN oks : ~oks[i])
               /\ lastOp' = "tick"
               /\ call' = TickRecord(TRUE, TRUE, ~overlay_ok,
                                     overlay_ok /\ tick # <<>>)
               /\ UNCHANGED <<impl, session_names, duplicates>>

\* mutant: a capture that fails forgets the stored fingerprint
ScreenCapture_capture_and_process_FailureForgets ==
    /\ impl = "counts"
    /\ \/ /\ ~region
          /\ SkippedTick(FALSE)
          /\ UNCHANGED changeVars
       \/ /\ region
          /\ SkippedTick(FALSE)
          /\ last_hash' = None
          /\ UNCHANGED hash_threshold
       \/ /\ region
          /\ \E img \in FewFrames :
               LET c == has_changed(last_hash, hash_threshold, img)
               IN  /\ last_hash' = c.last_hash
                   /\ UNCHANGED hash_threshold
                   /\ IF c.result THEN ProcessedTick(BOOLEAN)
                      ELSE SkippedTick(TRUE)
    /\ UNCHANGED <<normVars, tickVars, scrollVars>>

\* ScreenCapture.capture_and_process; the second case is _grab_region
\* returning None, for a region of no width or height or a screenshot
\* that raises
ScreenCapture_capture_and_process ==
    /\ impl = "counts"
    /\ \/ /\ ~region
          /\ SkippedTick(FALSE)
          /\ UNCHANGED changeVars
       \/ /\ region
          /\ SkippedTick(FALSE)
          /\ UNCHANGED changeVars
       \/ /\ region
          /\ \E img \in FewFrames :
               LET c == has_changed(last_hash, hash_threshold, img)
               IN  /\ last_hash' = c.last_hash
                   /\ UNCHANGED hash_threshold
                   /\ IF c.result THEN ProcessedTick(BOOLEAN)
                      ELSE SkippedTick(TRUE)
    /\ UNCHANGED <<normVars, tickVars, scrollVars>>

NextCapture ==
    \/ ScreenCapture_set_region
    \/ ScreenCapture_capture_and_process
    \/ ScreenCapture_reset_session
    \/ ScreenCapture_clear_all

InitCapture ==
    /\ InitLedger /\ impl = "counts" /\ faults = 0
    /\ InitNormalizer /\ InitScrollTracker /\ InitGui /\ InitScreenCapture
    /\ call = NoCall

SpecCapture == InitCapture /\ [][NextCapture]_vars

---------------------------------------------------------------------------
(* Two calls of store methods under way at the same time.  Every call      *)
(* opens a connection of its own; SQLite runs one statement at a time and  *)
(* one write transaction at a time, so a SELECT is one step and the        *)
(* statements from the first write to the commit are one step.  Nothing    *)
(* holds the database between the SELECT of add_name_occurrence and its    *)
(* write: the SELECT runs outside a transaction.                           *)

\* the calls a writer may be making
StoreCalls ==
    [op : {"add"}, name : NormNames, count : 1..MaxOccurrences,
     pc : {"select"}, row : {None}]
    \cup [op : {"clear"}, name : {<<>>}, count : {0},
          pc : {"write"}, row : {None}]

\* the stores the writers may find: any of the names, seen once
StoresBefore ==
    { [n \in ns |-> 1] : ns \in SUBSET NormNames }

\* add_name_occurrence of either store: the SELECT of the name's row and
\* its fetchone()
Database_add_select(i) ==
    /\ i \in DOMAIN writers
    /\ writers[i].op = "add"
    /\ writers[i].pc = "select"
    /\ writers' = [writers EXCEPT
                     ![i].row = IF writers[i].name \in DOMAIN db
                                THEN Some(db[writers[i].name]) ELSE None,
                     ![i].pc = "write"]
    /\ UNCHANGED db

\* tracker/database.py Database.add_name_occurrence after its SELECT: the
\* UPDATE stores the total computed from the row that was read, and
\* touches nothing when the row has gone; the INSERT of a name that has
\* appeared since the SELECT violates UNIQUE(name), and the except clause
\* logs it
Database_add_write_row(d, w) ==
    IF w.row # None
    THEN IF w.name \in DOMAIN d THEN Put(d, w.name, w.row[1] + w.count) ELSE d
    ELSE IF w.name \in DOMAIN d THEN d ELSE Put(d, w.name, w.count)

\* utils/database.py NameDatabase.add_name_occurrence after its SELECT:
\* the UPDATE adds to the count the row holds now; the INSERT of a name
\* that has appeared since the SELECT violates the primary key, and the
\* except clause logs it
NameDatabase_add_write_row(d, w) ==
    IF w.row # None
    THEN IF w.name \in DOMAIN d THEN Put(d, w.name, d[w.name] + w.count) ELSE d
    ELSE IF w.name \in DOMAIN d THEN d ELSE Put(d, w.name, w.count)

Database_add_write(i) ==
    /\ i \in DOMAIN writers
    /\ writers[i].op = "add"
    /\ writers[i].pc = "write"
    /\ db' = IF impl = "names"
             THEN Database_add_write_row(db, writers[i])
             ELSE NameDatabase_add_write_row(db, writers[i])
    /\ writers' = [writers EXCEPT ![i].pc = "done"]

\* clear_all_data / clear_all: the DELETEs and the commit
Database_clear(i) ==
    /\ i \in DOMAIN writers
    /\ writers[i].op = "clear"
    /\ writers[i].pc = "write"
    /\ db' = IF impl = "names"
             THEN Database_clear_all_data(db, TRUE)
             ELSE NameDatabase_clear_all(db, TRUE)
    /\ writers' = [writers EXCEPT ![i].pc = "done"]

StoreFrame ==
    UNCHANGED <<impl, faults, session_names, session_counts, duplicates,
                markers, lastTick, lastOp, recorded, observed, position_history, addFailed, normVars,
                scrollVars, changeVars, call, threads, gui_queue,
                manual_scan_btn, region, status_label>>

NextStore ==
    \E i \in 1..2 :
        \/ Database_add_select(i) /\ StoreFrame
        \/ Database_add_write(i) /\ StoreFrame
        \/ Database_clear(i) /\ StoreFrame

\* two callers, each about to make one call on a store that works; call
\* keeps the store as they found it
InitStore ==
    /\ session_names = {} /\ session_counts = EmptyDict
    /\ duplicates = <<>> /\ markers = <<>> /\ lastTick = <<>>
    /\ lastOp = "init" /\ recorded = EmptyDict /\ observed = EmptyDict /\ position_history = EmptyDict /\ addFailed = FALSE
    /\ impl \in {"names", "counts"} /\ faults = 0
    /\ db \in StoresBefore
    /\ InitNormalizer /\ InitScrollTracker /\ InitScreenCapture
    /\ threads = <<>> /\ gui_queue = <<>> /\ status_label = "Ready"
    /\ manual_scan_btn = TRUE /\ region = FALSE
    /\ writers \in [1..2 -> StoreCalls]
    /\ call = [op |-> "writers", before |-> db]

SpecStore == InitStore /\ [][NextStore]_vars

---------------------------------------------------------------------------
(* Observations *)

\* out/production DuplicateTracker.get_statistics
get_statistics ==
    [session_names        |-> Cardinality(DOMAIN session_counts),
     session_occurrences  |-> SumValues(session_counts),
     database_names       |-> Database_get_statistics(db).total_names,
     database_occurrences |-> Database_get_statistics(db).total_occurrences]

\* core DuplicateTracker.get_name_statistics
get_name_statistics ==
    [session_names        |-> Cardinality(session_names),
     total_database_names |-> Database_get_statistics(db).total_names,
     total_occurrences    |-> Database_get_statistics(db).total_occurrences]

StatSessionNames ==
    IF impl = "counts" THEN get_statistics.session_names
    ELSE get_name_statistics.session_names

StatDatabaseNames ==
    IF impl = "counts" THEN get_statistics.database_names
    ELSE get_name_statistics.total_database_names

StatDatabaseOccurrences ==
    IF impl = "counts" THEN get_statistics.database_occurrences
    ELSE get_name_statistics.total_occurrences

\* the names process_names reported
ReportedNames(dups) == {dups[i].name : i \in 1..Len(dups)}

\* the session count of a key; the "names" ledger keeps membership only
SessionCount(k) ==
    IF impl = "counts" THEN Get(session_counts, k, 0)
    ELSE IF k \in session_names THEN 1 ELSE 0

Range(seq) == {seq[i] : i \in 1..Len(seq)}

\* a sequence as a multiset
BagOf(seq) == [x \in Range(seq) |-> Cardinality({i \in 1..Len(seq) : seq[i] = x})]

RECURSIVE FlaggedPositions(_)
FlaggedPositions(dups) ==
    IF dups = <<>> THEN <<>>
    ELSE Head(dups).positions \o FlaggedPositions(Tail(dups))

ReportedCounts(dups) == {<<dups[i].name, dups[i].count>> : i \in 1..Len(dups)}

\* the detections of tick in every order
Orders(tick) ==
    {[i \in 1..Len(tick) |-> tick[p[i]]] : p \in Permutations(1..Len(tick))}

AllOkPairs(tick) == [i \in 1..Len(GroupByName(tick)) |-> [add |-> TRUE, get |-> TRUE]]

AllOk(tick) == [i \in 1..Len(tick) |-> TRUE]

---------------------------------------------------------------------------
(* Claims *)

\* C1: in every tick of the process_names ledger, a normalized name of the
\* tick is reported as a duplicate iff it was in the session set before the
\* tick or the durable count after the tick's add exceeds the number of
\* positions the name has in the tick.
C1_ClassifyRule ==
    [][(impl = "names" /\ lastOp' = "tick") =>
         \A n \in TickKeys(lastTick') :
            (n \in ReportedNames(duplicates')) <=>
               (n \in session_names \/
                Get(db', n, 0) > Occurrences(lastTick', n))]_vars

\* C1 witness: a tick reported one name for its durable history alone and
\* left another name of the same tick unreported.
C1_Witness ==
    /\ impl = "names" /\ lastOp = "tick"
    /\ \E i \in 1..Len(duplicates) : duplicates[i].is_new_duplicate
    /\ \E n \in TickKeys(lastTick) : n \notin ReportedNames(duplicates)

\* C2: a name never seen (not in the session, no durable record) that a tick
\* holds at one position is not reported; a name seen once (in the session,
\* durable count 1) that a later tick holds at one position is reported with
\* count 2.
C2_FirstThenSecond ==
    [][(impl = "names" /\ lastOp' = "tick") =>
         \A n \in TickKeys(lastTick') :
            Occurrences(lastTick', n) = 1 =>
              /\ (n \notin session_names /\ Get(db, n, 0) = 0) =>
                     n \notin ReportedNames(duplicates')
              /\ (n \in session_names /\ Get(db, n, 0) = 1) =>
                     <<n, 2>> \in ReportedCounts(duplicates')]_vars

\* C2 witness: a tick reported, with count 2, a name it held once and that
\* the session had already seen.
C2_Witness ==
    /\ impl = "names" /\ lastOp = "tick"
    /\ \E i \in 1..Len(duplicates) :
          /\ duplicates[i].count = 2
          /\ Len(duplicates[i].positions) = 1
          /\ ~duplicates[i].is_new_duplicate

\* C3 (as claimed): on a fresh ledger over an empty store, a name detected
\* at two positions of one tick has its second occurrence classified as a
\* duplicate, with count 2 where a count is reported.
C3_SameTickSecondIsDuplicate ==
    [][(lastOp' = "tick" /\ session_names = {} /\ session_counts = EmptyDict
        /\ db = EmptyDict) =>
         \A i, j \in 1..Len(lastTick') :
            (i < j /\ KeyOf(lastTick'[i].name) = KeyOf(lastTick'[j].name)) =>
               IF impl = "names"
               THEN \E e \in 1..Len(duplicates') :
                       /\ duplicates'[e].name = KeyOf(lastTick'[j].name)
                       /\ duplicates'[e].count = 2
                       /\ lastTick'[j].box \in Range(duplicates'[e].positions)
               ELSE BoxOf(lastTick'[j]) \in Range(markers')]_vars

\* C4: the durable count of every name equals the number of occurrences
\* handed to the ledger since the store was last empty (the positions of all
\* ticks, and one per manual addition), and every duplicate a tick reports
\* carries the durable count as it stands after the tick.
C4_DurableCountIsTotal ==
    impl = "names" =>
       /\ DOMAIN db = DOMAIN recorded
       /\ \A k \in DOMAIN db : db[k] = recorded[k]
       /\ lastOp = "tick" =>
             \A i \in 1..Len(duplicates) :
                duplicates[i].count = Get(db, duplicates[i].name, 0)

\* C4 witness: a name with one earlier occurrence is detected at two
\* positions and reported with count 3, the durable count.
C4_Witness ==
    /\ impl = "names" /\ lastOp = "tick"
    /\ \E i \in 1..Len(duplicates) :
          /\ duplicates[i].count = 3
          /\ Len(duplicates[i].positions) = 2
          /\ db[duplicates[i].name] = 3

C6_SessionResetsOnlyOnReset ==
    [][/\ (\E k \in Keys : SessionCount(k)' < SessionCount(k)) =>
             lastOp' \in {"reset_session", "clear_all"}
       /\ lastOp' \in {"reset_session", "clear_all"} =>
             \A k \in Keys : SessionCount(k)' = 0]_vars

\* C6 (amended): a session count decreases only in a step of reset_session
\* (alone or inside clear-all), which sets all of them to 0, or in a step of
\* remove_name, which takes one name of the process_names ledger out of the
\* session and leaves the others.
C6_SessionResetsOnResetOrRemove ==
    [][/\ (\E k \in Keys : SessionCount(k)' < SessionCount(k)) =>
             \/ lastOp' \in {"reset_session", "clear_all"}
             \/ /\ lastOp' = "remove_name" /\ impl = "names"
                /\ Cardinality(session_names \ session_names') = 1
                /\ session_names' \subseteq session_names
       /\ lastOp' \in {"reset_session", "clear_all"} =>
             \A k \in Keys : SessionCount(k)' = 0]_vars

\* C6 witness: after remove_name the session lacks a name the store holds
\* while another name is still in the session.
C6_Witness ==
    /\ impl = "names" /\ lastOp = "remove_name"
    /\ session_names # {}
    /\ \E k \in DOMAIN db : k \notin session_names

\* C7: a reset_session step leaves the durable store as it was, empties the
\* session (session_names statistic 0) and leaves the overlay with no marker.
C7_ResetSessionFrame ==
    [][lastOp' = "reset_session" =>
         /\ db' = db
         /\ StatDatabaseNames' = StatDatabaseNames
         /\ session_names' = {} /\ session_counts' = EmptyDict
         /\ StatSessionNames' = 0
         /\ markers' = <<>>]_vars

\* C7 witness: a session was reset while the store holds records.
C7_Witness ==
    /\ lastOp = "reset_session" /\ db # EmptyDict
    /\ StatSessionNames = 0 /\ StatDatabaseNames > 0

C9_KeyedByNormalizedName ==
    [][lastOp' = "tick" =>
         \A i \in 1..Len(lastTick') :
            (\E raw \in RawNames :
                /\ NormalizedOf[raw] = NormalizedOf[lastTick'[i].name]
                /\ SessionCount(KeyOf(raw)) > 0) =>
               IF impl = "names"
               THEN NormalizedOf[lastTick'[i].name] \in ReportedNames(duplicates')
               ELSE BoxOf(lastTick'[i]) \in Range(markers')]_vars

\* C10 (as claimed): a tick gives the same reported names, flagged positions
\* (as a multiset), reported counts, session state and durable state for
\* every order of its detections.
C10_OrderIndependent ==
    [][lastOp' = "tick" =>
         \A t \in Orders(lastTick') :
            IF impl = "names"
            THEN LET r == process_names(session_names, db, t, AllOkPairs(t))
                 IN  /\ r.session_names = session_names'
                     /\ r.db = db'
                     /\ ReportedNames(r.duplicates) = ReportedNames(duplicates')
                     /\ ReportedCounts(r.duplicates) = ReportedCounts(duplicates')
                     /\ BagOf(FlaggedPositions(r.duplicates)) =
                           BagOf(FlaggedPositions(duplicates'))
            ELSE LET r == process(session_counts, db, t, AllOk(t))
                 IN  /\ r.session_counts = session_counts'
                     /\ r.db = db'
                     /\ BagOf(r.duplicate_boxes) = BagOf(markers')]_vars

\* the result alphabet and shape: a-z, space, hyphen; no space at either
\* end, no two spaces in a row
WellFormedName(n) ==
    /\ \A i \in 1..Len(n) : n[i] \in AllowedChars
    /\ n # <<>> => (n[1] # " " /\ n[Len(n)] # " ")
    /\ \A i \in 1..(Len(n) - 1) : ~(n[i] = " " /\ n[i + 1] = " ")

\* C11: normalize_name is idempotent: applied to its own result it returns
\* that result.
C11_NormalizeIdempotent ==
    Len(nm_out) = 2 => nm_out[2] = nm_out[1]

\* C11 witness: a name with capitals, an OCR confusion and whitespace was
\* normalized to something else, and normalized again.
C11_Witness ==
    /\ Len(nm_out) = 2
    /\ nm_out[1] # nm_cur
    /\ nm_out[1] # <<>>
    /\ \E i \in 1..Len(nm_cur) : IsSpace(nm_cur[i])
    /\ \E i \in 1..Len(nm_cur) : nm_cur[i] \in {"L", "O", "|", "0", "1"}

\* C12 (as claimed): two names that differ only in letter case, in the
\* length of whitespace runs or leading and trailing whitespace, or in the
\* OCR confusions normalize to the same result, and the result is over
\* a-z, space and hyphen with no leading, trailing or doubled space.
C12_NormalizeEquivalent ==
    /\ normalize_name(nm_cur) = normalize_name(nm_orig)
    /\ WellFormedName(normalize_name(nm_cur))

\* the entries of seq at the indices in S, in order
RECURSIVE PickFrom(_, _, _)
PickFrom(seq, S, i) ==
    IF i > Len(seq) THEN <<>>
    ELSE (IF i \in S THEN <<seq[i]>> ELSE <<>>) \o PickFrom(seq, S, i + 1)

Pick(seq, S) == PickFrom(seq, S, 1)

\* the y a scroll event moves y to
ShiftedY(y, scroll_info) ==
    IF scroll_info[1].direction = "down" THEN y - scroll_info[1].magnitude
    ELSE y + scroll_info[1].magnitude

\* the markers with y shifted, everything else as it was
ShiftedMarkers(ms, scroll_info) ==
    [i \in 1..Len(ms) |->
        [x |-> ms[i].x, y |-> ShiftedY(ms[i].y, scroll_info),
         width |-> ms[i].width, height |-> ms[i].height]]

ShiftedBoxes(boxes, scroll_info) ==
    [i \in 1..Len(boxes) |->
        <<boxes[i][1], ShiftedY(boxes[i][2], scroll_info),
          boxes[i][3], boxes[i][4]>>]

\* a step that is a call of adjust_marker_positions with a scroll event
AdjustStep ==
    /\ impl = "names"
    /\ call.op \in {"markers", "adjust_marker_positions"}
    /\ call'.op = "adjust_marker_positions"
    /\ call'.scroll_info # None

\* C13: the result of adjust_marker_positions is the input list with y
\* moved by the magnitude (down: y - magnitude, up: y + magnitude), x, width
\* and height as they were, some markers left out and the others in their
\* order.
C13_AdjustShiftsY ==
    [][AdjustStep =>
         \E S \in SUBSET (1..Len(call.markers)) :
            call'.result =
               Pick(ShiftedMarkers(call.markers, call'.scroll_info), S)]_vars

\* C13 witness: markers at y 50 and y 10 under down/20 came back at y 30
\* and y -10.
C13_Witness ==
    /\ call.op = "adjust_marker_positions"
    /\ call.scroll_info = Some([direction |-> "down", magnitude |-> 20])
    /\ call.markers = << [x |-> 10, y |-> 50, width |-> 20, height |-> 10],
                         [x |-> 30, y |-> 10, width |-> 25, height |-> 10] >>
    /\ call.result = << [x |-> 10, y |-> 30, width |-> 20, height |-> 10],
                        [x |-> 30, y |-> -10, width |-> 25, height |-> 10] >>

C15_AdjustIsPure ==
    [][(impl = "names" /\ call.op \in {"markers", "adjust_marker_positions"}
        /\ call'.op = "adjust_marker_positions") =>
         /\ call'.markers = call.markers
         /\ UNCHANGED scrollVars
         /\ call'.result =
               adjust_marker_positions(call.markers, call'.scroll_info).value
         /\ (call.op = "adjust_marker_positions"
             /\ call'.scroll_info = call.scroll_info) =>
                call'.result = call.result]_vars

\* C15 witness: markers were moved while the tracker held a cached frame,
\* earlier OCR results and a scroll event.
C15_Witness ==
    /\ call.op = "adjust_marker_positions"
    /\ call.result # call.markers
    /\ last_image # None
    /\ last_ocr_results # <<>>
    /\ scroll_history # <<>>

\* C16 (as claimed): when at least two texts are also in the previous
\* detection set and every matched y is exactly 20 larger, track_ocr_results
\* returns a scroll event with direction down and magnitude 20.
C16_UniformMoveGivesEvent ==
    (/\ call.op = "track_ocr_results"
     /\ Cardinality(DOMAIN call.y_diffs) >= 2
     /\ \A t \in DOMAIN call.y_diffs : call.y_diffs[t] = 20) =>
        /\ ~call.raised
        /\ call.scroll_info # None
        /\ call.scroll_info[1].direction = "down"
        /\ call.scroll_info[1].magnitude = 20

\* the deltas are not a uniform scroll: standard deviation 20 or more, or
\* |mean| not above the threshold 10
NotUniform(d) ==
    LET n == Cardinality(DOMAIN d)
    IN  \/ n * SumValues([k \in DOMAIN d |-> d[k] * d[k]])
               - SumValues(d) * SumValues(d) >= 400 * n * n
        \/ (SumValues(d) <= 10 * n /\ -SumValues(d) <= 10 * n)

\* C17: track_ocr_results returns no scroll event and the detections as
\* given whenever there is no previous set, fewer than two texts match it
\* (y_diffs is not built), the matched deltas have a standard deviation of
\* 20 or more, or the absolute mean delta is not above the scroll
\* threshold 10; the given detections become the previous set.
C17_NoEventUnlessUniform ==
    (/\ call.op = "track_ocr_results"
     /\ (Cardinality(DOMAIN call.y_diffs) < 2 \/ NotUniform(call.y_diffs))) =>
        /\ ~call.raised
        /\ call.scroll_info = None
        /\ call.results = call.ocr_results
        /\ last_ocr_results = call.ocr_results

\* C17 witness: one text moved +20 and the other -20 (standard deviation
\* 20) and no event was returned.
C17_Witness ==
    /\ call.op = "track_ocr_results"
    /\ DOMAIN call.y_diffs = {"John", "Jane"}
    /\ call.y_diffs["John"] = 20 /\ call.y_diffs["Jane"] = -20
    /\ call.scroll_info = None
    /\ ~call.raised
    /\ call.results = call.ocr_results

\* a step that is one call of _has_changed (a baseline reset leaves the
\* record of the last call alone and empties last_hash)
CheckStep ==
    /\ call'.op = "_has_changed"
    /\ (call' # call \/ last_hash' # None)

\* C18: with no fingerprint stored, _has_changed answers changed for every
\* frame, and stores the fingerprint of the frame as the new baseline
\* whenever imagehash could compute one.
C18_BootstrapChanged ==
    [][(CheckStep /\ last_hash = None) =>
          /\ call'.result
          /\ (~call'.raised =>
                last_hash' = Some(imagehash_phash(call'.img).value))]_vars

\* the first check after construction, threshold 5, on the frame with hash
\* bits 1..3: no stored hash is more than 5 bits away from it
C18_Witness ==
    /\ call.op = "_has_changed"
    /\ call.img.id = 3
    /\ ~call.raised
    /\ call.result
    /\ hash_threshold = default_hash_threshold
    /\ last_hash = Some(1..3)

\* C19: with a fingerprint stored, a check that computes the current
\* fingerprint answers changed exactly when the two fingerprints differ in
\* more than hash_threshold bits; a check of the frame checked just before
\* answers unchanged for every threshold >= 0.
C19_ChangedIffDistanceExceeds ==
    [][(CheckStep /\ last_hash # None /\ ~call'.raised) =>
          /\ call'.result <=>
                (HashDiff(imagehash_phash(call'.img).value, last_hash[1])
                    > hash_threshold)
          /\ (call.op = "_has_changed" /\ call'.img = call.img
              /\ hash_threshold >= 0) => ~call'.result]_vars

\* threshold 0: the frame with hash bits 1..3 is checked twice in a row and
\* only the hash of that frame is 0 bits away
C19_Witness ==
    /\ call.op = "_has_changed"
    /\ call.img.id = 3
    /\ ~call.raised
    /\ ~call.result
    /\ hash_threshold = 0
    /\ last_hash = Some(1..3)

\* C20: after every call of _has_changed that does not take the except
\* branch, last_hash is the fingerprint of the frame just checked, for a
\* changed and for an unchanged verdict.
C20_BaselineIsLastFrame ==
    [][(CheckStep /\ ~call'.raised) =>
          last_hash' = Some(imagehash_phash(call'.img).value)]_vars

\* an unchanged verdict at threshold 1 on the frame with hash bits 1..2
C20_Witness ==
    /\ call.op = "_has_changed"
    /\ call.img.id = 2
    /\ ~call.raised
    /\ ~call.result
    /\ hash_threshold = 1
    /\ last_hash = Some(1..2)

\* C21: a call of _has_changed in which imagehash raises answers changed and
\* leaves last_hash empty, and the call after a failed one answers changed
\* whatever its frame is.
C21_FailOpenRebootstraps ==
    [][CheckStep =>
          /\ call'.raised => (call'.result /\ last_hash' = None)
          /\ (call.op = "_has_changed" /\ call.raised) => call'.result]_vars

\* imagehash has raised on the unreadable frame: the verdict is changed and
\* no baseline is left
C21_Witness ==
    /\ call.op = "_has_changed"
    /\ ~call.img.readable
    /\ call.raised
    /\ call.result
    /\ last_hash = None

\* a step that starts a ScanWorker
StartsWorker == threads' = Append(Collected(threads), "start")

\* C22: never more than one ScanWorker is running; while one is running no
\* step starts another, and a perform_scan then changes nothing but the
\* record of the call: the trigger is dropped, nothing is kept for later.
C22_OneTickInFlight ==
    [][/\ Cardinality(Running(threads')) <= 1
       /\ Running(threads) # {} =>
            /\ ~StartsWorker
            /\ call' # call =>
                 /\ call'.outcome = "skipped"
                 /\ UNCHANGED <<threads, gui_queue, status_label,
                                manual_scan_btn, ledgerVars>>]_vars

\* a timer timeout found the worker past its capture and was dropped
C22_Witness ==
    /\ call.op = "perform_scan"
    /\ call.trigger = "timer"
    /\ call.outcome = "skipped"
    /\ threads = <<"changed">>

\* a worker has begun or passed its capture
Capturing(pc) == pc \in {"captured", "scrolled", "changed"}

InQueue(signal) == \E k \in DOMAIN gui_queue : gui_queue[k] = signal

\* C23 (as claimed): while a worker is capturing or further on in its run,
\* no scan_completed of an earlier run is waiting for on_scan_completed.
C23_TicksSequential ==
    (\E i \in DOMAIN threads : Capturing(threads[i])) =>
        ~InQueue("scan_completed")

\* C24 (as claimed): no failure of a stage leaves the tick: a call of
\* capture_and_process always returns to the timer slot that made it.
C24_FailureStaysInTick ==
    call.op = "capture_and_process" => ~call.raised

\* C25 (as claimed): every tick that grabbed a frame ran a scroll
\* detection on it, whatever the change check said.
C25_ScrollDetectionEveryTick ==
    (call.op = "capture_and_process" /\ call.captured) =>
        call.detect_scroll_ran

ResetOps == {"reset_session", "clear_all"}

\* C26: a reset or clear runs in the GUI thread in one piece: it leaves the
\* session empty (and, for clear, the store empty) whatever the worker is
\* doing, no step of a worker thread touches the session or the store, and
\* the classification that follows a reset leaves in the session exactly
\* the names of its own tick.
C26_ResetAtomic ==
    [][/\ lastOp' \in ResetOps =>
            /\ session_names' = {}
            /\ lastOp' = "clear_all" => db' = EmptyDict
       /\ (lastOp \in ResetOps /\ lastOp' = "tick") =>
            session_names' =
                {NormalizedOf[lastTick'[i].name] : i \in DOMAIN lastTick'}
       /\ threads' # threads => UNCHANGED <<session_names, db>>]_vars

\* a session reset has run while a worker was past its change check, with
\* names of the session before it still in the store
C26_Witness ==
    /\ lastOp = "reset_session"
    /\ threads = <<"changed">>
    /\ db # EmptyDict
    /\ session_names = {}

\* one call made alone on store d, as the store methods do it
Sequential(w, d) ==
    IF w.op = "clear" THEN Database_clear_all_data(d, TRUE)
    ELSE Database_add_name_occurrence(d, w.name, w.count, TRUE)

WritersDone == \A i \in DOMAIN writers : writers[i].pc = "done"

\* C27 (as claimed): when two store calls under way at the same time have
\* both returned, the store is what one of the two sequential orders of
\* the calls leaves; for two add-occurrence calls on one name that is the
\* count before plus both counts.
C27_WritersSerialized ==
    (call.op = "writers" /\ WritersDone) =>
        db \in { Sequential(writers[2], Sequential(writers[1], call.before)),
                 Sequential(writers[1], Sequential(writers[2], call.before)) }

\* C28 (as claimed): a tick of the "names" ledger in which a statement of
\* the durable store raised reports an error to the caller of the ledger,
\* which shows it in the status label.
C28_StoreFailureReported ==
    [][(impl = "names" /\ lastOp' = "tick" /\ faults' < faults) =>
           status_label' = "Error processing results"]_vars

\* the two scores of a call name a direction
Scored(c) ==
    \/ c.down_score > correlation_threshold /\ c.down_score > c.up_score
    \/ c.up_score > correlation_threshold /\ c.up_score > c.down_score

\* consecutive events of a history are at least gap apart
SpacedBy(history, gap) ==
    \A k \in 1..(Len(history) - 1) :
        history[k + 1].timestamp - history[k].timestamp >= gap

C30_BoundedHistory ==
    [][/\ Len(scroll_history') <= max_history
       /\ \A k \in 1..(Len(scroll_history') - 1) :
            scroll_history'[k].timestamp < scroll_history'[k + 1].timestamp
       /\ (call'.op = "detect_scroll" /\ clock' = clock
             /\ call'.result # None) =>
            scroll_history' =
                IF Len(scroll_history) = max_history
                THEN Append(Tail(scroll_history), call'.result[1])
                ELSE Append(scroll_history, call'.result[1])]_vars

\* an event was emitted while the history held 10, and is now its last
C30_Witness ==
    /\ call.op = "detect_scroll"
    /\ call.result # None
    /\ call.held = max_history
    /\ Len(scroll_history) = max_history
    /\ scroll_history[max_history] = call.result[1]

\* event is the newest entry of the scroll history
NewestInHistory(event) ==
    /\ scroll_history # <<>>
    /\ scroll_history[Len(scroll_history)] = event

\* C31 (as claimed): an event returned by detect_scroll or by
\* track_ocr_results is the newest entry of the scroll history when the
\* call has returned.
C31_ReturnedEventIsNewest ==
    /\ (call.op = "detect_scroll" /\ call.result # None) =>
           NewestInHistory(call.result[1])
    /\ (call.op = "track_ocr_results" /\ call.scroll_info # None) =>
           NewestInHistory(call.scroll_info[1])

\* the two frames of a detect_scroll step can be compared: a frame is
\* cached, one of the same size is given, no cooldown is active and no
\* processing step raises
Comparable ==
    /\ call'.op = "detect_scroll"
    /\ clock' = clock
    /\ last_image # None
    /\ call'.image # None
    /\ ~call'.raises
    /\ clock - last_scroll_time >= scroll_cooldown

SameSize(a, b) == a[1].height = b[1].height /\ a[1].width = b[1].width

HigherScore(c) == IF c.down_score >= c.up_score THEN c.down_score ELSE c.up_score

\* C32 (as claimed): on two comparable frames of one size detect_scroll
\* returns an event whenever the higher of the two scores exceeds the
\* correlation threshold, equal scores included, with that score as its
\* confidence and the direction of a hypothesis that reached it, and no
\* event otherwise.
C32_HigherScoreDecides ==
    [][(Comparable /\ SameSize(last_image, call'.image)) =>
         IF HigherScore(call') > correlation_threshold
         THEN /\ call'.result # None
              /\ call'.result[1].confidence = HigherScore(call')
              /\ call'.result[1].direction = "down" =>
                     call'.down_score = HigherScore(call')
              /\ call'.result[1].direction = "up" =>
                     call'.up_score = HigherScore(call')
         ELSE call'.result = None]_vars

\* C33: a detect_scroll call on a tracker that caches no frame returns no
\* event, caches the frame it was given and leaves history and cooldown
\* alone.
C33_BootstrapCaches ==
    [][(call'.op = "detect_scroll" /\ clock' = clock /\ last_image = None) =>
         /\ call'.result = None
         /\ last_image' = call'.image
         /\ UNCHANGED <<scroll_history, last_scroll_time>>]_vars

\* a call with scores of a scroll on a tracker with nothing cached returned
\* no event and cached its frame
C33_Witness ==
    /\ call.op = "detect_scroll"
    /\ call.image # None
    /\ ~call.raises
    /\ Scored(call)
    /\ call.result = None
    /\ last_image = call.image
    /\ scroll_history = <<>>
    /\ last_scroll_time = 0

\* C34 (as claimed): a detect_scroll call whose frame differs in size
\* from the cached one, or in which a processing step raises (the steps
\* run once the cooldown check has passed), returns no event, leaves
\* history and cooldown time as they were and caches the frame it was
\* given.
C34_IncomparableRecaches ==
    [][(/\ call'.op = "detect_scroll" /\ clock' = clock
        /\ last_image # None /\ call'.image # None
        /\ \/ ~SameSize(last_image, call'.image)
           \/ /\ call'.raises
              /\ clock - last_scroll_time >= scroll_cooldown) =>
         /\ call'.result = None
         /\ last_image' = call'.image
         /\ UNCHANGED <<scroll_history, last_scroll_time>>]_vars

\* C39 (as claimed): after a detect_scroll call with a frame, whatever
\* path the call took, the cached frame is that frame.
C39_CachedIsLastFrame ==
    [][(call'.op = "detect_scroll" /\ clock' = clock /\ call'.image # None) =>
           last_image' = call'.image]_vars

\* C35: a call of capture_and_process that grabs no frame (no region, or
\* _grab_region returning None) returns False without asking the change
\* gate or running OCR, and leaves the stored fingerprint, the session
\* counts, the durable store and the markers as they were.
C35_CaptureFailureAborts ==
    [][(call'.op = "capture_and_process" /\ ~call'.captured) =>
         /\ ~call'.result
         /\ ~call'.raised
         /\ ~call'.changed
         /\ ~call'.ocr_ran
         /\ UNCHANGED <<last_hash, session_counts, db, markers, lastTick>>]_vars

\* a capture failed after a tick that stored a fingerprint, recorded a name
\* twice and displayed a marker; all of it is still there
C35_Witness ==
    /\ call.op = "capture_and_process"
    /\ ~call.captured
    /\ region
    /\ last_hash # None
    /\ session_counts # EmptyDict
    /\ db # EmptyDict
    /\ markers # <<>>

\* the rectangles of the detections of tick that are duplicates, in order:
\* those whose name the session had counted before, in an earlier tick or
\* earlier in this one
RECURSIVE DuplicateRectangles(_, _, _)
DuplicateRectangles(counts, tick, i) ==
    IF i > Len(tick) THEN <<>>
    ELSE LET seen == Get(counts, tick[i].name, 0)
                       + Cardinality({j \in 1..(i - 1) :
                                        tick[j].name = tick[i].name})
         IN  (IF seen >= 1 THEN <<BoxOf(tick[i])>> ELSE <<>>)
                \o DuplicateRectangles(counts, tick, i + 1)

\* C36: a call of capture_and_process that gets past the change gate
\* leaves on the overlay exactly the rectangles of the duplicates of its
\* own OCR result, none when the result is empty (no text, or OCR failed)
\* and none when no detection is a duplicate.
C36_MarkersReplaced ==
    [][(call'.op = "capture_and_process" /\ call'.ocr_ran) =>
           markers' = DuplicateRectangles(session_counts, lastTick', 1)]_vars

\* a tick whose OCR found nothing has emptied the overlay of a session
\* that had displayed a duplicate
C36_Witness ==
    /\ call.op = "capture_and_process"
    /\ call.ocr_ran
    /\ lastTick = <<>>
    /\ markers = <<>>
    /\ \E n \in DOMAIN session_counts : session_counts[n] >= 2

\* the names observed since the last reset, as the ledger identifies names
ObservedNames == {NormalizedOf[k] : k \in DOMAIN observed}

\* C37 (as claimed), for the ledger whose get_statistics returns the four
\* figures: session_names is the number of distinct names observed since
\* the last reset, session_occurrences the number of detections observed
\* since then, database_names the number of records of the store and
\* database_occurrences the sum of their counts.
C37_StatisticsMatch ==
    impl = "counts" =>
        /\ get_statistics.session_names = Cardinality(ObservedNames)
        /\ get_statistics.session_occurrences = SumValues(observed)
        /\ get_statistics.database_names = Cardinality(DOMAIN db)
        /\ get_statistics.database_occurrences = SumValues(db)

---------------------------------------------------------------------------
(* The scan loop with its scroll hand-over.  ScanWorker.run asks           *)
(* ScreenCapture.detect_scroll of core/screen_capture.py for an event;     *)
(* on_scan_completed reads the scroll history and hands its last entry to  *)
(* process_names of tracker/duplicate_tracker.py, which shifts the         *)
(* position history by it.  One scan runs to its end before the next       *)
(* starts, and the clock moves a tenth of a second with every scan.        *)

\* update_position_history keeps the last 10 positions of a name
max_positions == 10

\* the clock at which the scan loop stops
MaxScanClock == 11

\* core/screen_capture.py ScreenCapture.detect_scroll: strips of a third of
\* the frame, the event of the higher score, the history of the last 10
ScreenCapture_detect_scroll(history, last_screenshot, current_image, down_score, up_score, now) ==
    IF current_image = None \/ last_screenshot = None
    THEN [result |-> None, scroll_history |-> history]
    ELSE IF ~SameSize(last_screenshot, current_image)
    THEN [result |-> None, scroll_history |-> history]
    ELSE LET strip_height == current_image[1].height \div 3
             scroll_info  == ImageScrollInfo(down_score, up_score,
                                             strip_height, now)
         IN  [result |-> scroll_info,
              scroll_history |->
                  IF scroll_info # None
                  THEN AppendHistory(history, scroll_info[1])
                  ELSE history]

\* on_scan_completed: scroll_history[-1] when there is a history
LastScroll(history) ==
    IF history # <<>> THEN Some(history[Len(history)]) ELSE None

\* a position as process_names files it
PositionOf(box) ==
    [x |-> box.x, y |-> box.y, width |-> box.width, height |-> box.height]

\* DuplicateTracker.adjust_existing_positions
adjust_existing_positions(history, scroll_info) ==
    [n \in DOMAIN history |->
        [i \in DOMAIN history[n] |->
            IF scroll_info.direction = "down"
            THEN [history[n][i] EXCEPT !.y = @ - scroll_info.magnitude]
            ELSE IF scroll_info.direction = "up"
            THEN [history[n][i] EXCEPT !.y = @ + scroll_info.magnitude]
            ELSE history[n][i]]]

\* seq[-n:]
LastOf(seq, n) ==
    IF Len(seq) > n THEN SubSeq(seq, Len(seq) - n + 1, Len(seq)) ELSE seq

\* DuplicateTracker.update_position_history
update_position_history(history, normalized_name, positions) ==
    LET held  == Get(history, normalized_name, <<>>)
        filed == held \o [i \in DOMAIN positions |-> PositionOf(positions[i])]
    IN  Put(history, normalized_name, LastOf(filed, max_positions))

RECURSIVE UpdateFrom(_, _, _)
UpdateFrom(history, groups, i) ==
    IF i > Len(groups) THEN history
    ELSE UpdateFrom(update_position_history(history, groups[i].name,
                                            groups[i].positions),
                    groups, i + 1)

\* process_names(names_with_positions, scroll_info), what it does to the
\* position history: nothing on an empty scan; otherwise the scroll
\* adjustment, then the positions of every name of the scan
process_names_positions(history, tick, scroll_info) ==
    IF tick = <<>> THEN history
    ELSE UpdateFrom(IF scroll_info # None
                    THEN adjust_existing_positions(history, scroll_info[1])
                    ELSE history,
                    GroupByName(tick), 1)

\* one scan: ScanWorker.run on a frame out of images, then
\* on_scan_completed when the frame had changed.  last_screenshot is
\* assigned nowhere in the sources; it is any frame or None.
\* on_scroll_detected ends in an AttributeError that it catches and moves
\* no marker.
ScanTick(images, down_scores, up_scores) ==
    /\ impl = "names"
    /\ clock < MaxScanClock
    /\ clock' = clock + 1
    /\ \E frame \in images,
          last_screenshot \in {None} \cup {Some(i) : i \in images},
          down_score \in down_scores, up_score \in up_scores,
          changed \in BOOLEAN :
         LET r == ScreenCapture_detect_scroll(scroll_history, last_screenshot,
                                              Some(frame), down_score,
                                              up_score, clock)
             scroll_info == LastScroll(r.scroll_history)
         IN  /\ scroll_history' = r.scroll_history
             /\ IF changed
                THEN /\ ProcessScan(FewTicks, {TRUE})
                     /\ position_history' =
                            process_names_positions(position_history,
                                                    lastTick', scroll_info)
                     /\ call' = [op |-> "scan", detected |-> r.result,
                                 completed |-> TRUE,
                                 scroll_info |-> scroll_info]
                ELSE /\ UNCHANGED <<ledgerVars, status_label>>
                     /\ call' = [op |-> "scan", detected |-> r.result,
                                 completed |-> FALSE, scroll_info |-> None]
    /\ UNCHANGED <<normVars, workerVars, changeVars, last_image,
                   last_ocr_results, last_scroll_time>>

NextConsume ==
    \/ ScanTick(OneImage, DownScores, NoScore)
    \/ MainWindow_reset_session

\* scans one after the other, and session resets between them
SpecConsume == InitTrack /\ [][NextConsume]_vars

\* a step is a scan
IsScan == call'.op = "scan" /\ clock' # clock

\* the positions filed before a step are filed after it as they were, but
\* for those that left through the bound of 10
PositionsKept ==
    \A n \in DOMAIN position_history :
        /\ n \in DOMAIN position_history'
        /\ \E d \in 0..Len(position_history[n]) :
             /\ d > 0 => Len(position_history'[n]) = max_positions
             /\ Len(position_history'[n]) >= Len(position_history[n]) - d
             /\ SubSeq(position_history'[n], 1, Len(position_history[n]) - d)
                    = SubSeq(position_history[n], d + 1,
                             Len(position_history[n]))

\* C38 (as claimed): a scroll event is consumed at most once.  The event
\* handed to classification in a scan is the event detected in that scan,
\* and none when that scan detected none or did not reach classification;
\* a scan that detected no scroll shifts no filed position.
C38_ScrollConsumedOnce ==
    [][IsScan =>
           /\ call'.scroll_info =
                  (IF call'.completed THEN call'.detected ELSE None)
           /\ (call'.detected = None => PositionsKept)]_vars

\* the commands that empty the stored fingerprint
ForgetOps == {"set_region", "reset_session", "clear_all"}

\* C40: reset_session, clear_all and set_region leave no stored
\* fingerprint; a capture that fails keeps none stored; and a tick that
\* grabs a frame while none is stored is treated as changed and runs OCR,
\* whatever the frame.
C40_CommandForcesOcr ==
    [][/\ call'.op \in ForgetOps => last_hash' = None
       /\ (call'.op = "capture_and_process" /\ last_hash = None) =>
             IF call'.captured
             THEN call'.changed /\ call'.ocr_ran
             ELSE last_hash' = None]_vars

\* a tick right after a reset_session grabbed a frame, met no fingerprint,
\* ran OCR and found a name the session before the reset had recorded
C40_Witness ==
    /\ call.op = "capture_and_process"
    /\ call.captured
    /\ call.bootstrap
    /\ call.ocr_ran
    /\ last_hash # None
    /\ \E n \in DOMAIN session_counts :
         session_counts[n] = 1 /\ Get(db, n, 0) >= 2

=============================================================================
